---- MODULE Spec2Model ----
(***************************************************************************)
(* A model of the sun-clock astronomical engine and of the SunClock React  *)
(* component that renders it (src/src/components/SunClock.tsx and the      *)
(* later revision of the same component kept in src/vite.config.ts).       *)
(*                                                                         *)
(* Numbers.  The code computes in IEEE doubles; the model computes in      *)
(* fixed point, every multiplication kept inside TLC's 32-bit integers:    *)
(*   - an angle is an integer number of centidegrees (1/100 degree);       *)
(*   - a sine, cosine or tangent is an integer number of 1/Scale;          *)
(*   - an hour of the day is an integer number of 1/HourUnit hours, with   *)
(*     HourUnit = 1500 so that "degrees / 15" is exact on centidegrees;    *)
(*   - an orbit angle is an exact rational: an integer number of           *)
(*     1/AngleDen degrees, AngleDen = 365 * 366, so that k/365 and k/366   *)
(*     of a turn are both integers.                                        *)
(* Math.sin and Math.cos are the sine at whole degrees, linear in between, *)
(* Math.acos is the inverse of that cosine found by bisection, Math.tan is *)
(* sine over cosine.                                                       *)
(***************************************************************************)
EXTENDS Integers, Sequences, FiniteSets, TLC

Scale == 10^4
HourUnit == 15 * 100
AngleDen == 365 * 366

Abs(x) == IF x < 0 THEN -x ELSE x
Sgn(x) == IF x < 0 THEN -1 ELSE IF x > 0 THEN 1 ELSE 0

\* x * y / Scale for fixed-point x (any size below 2^31) and |y| <= 2 * Scale,
\* split so that no intermediate product leaves 32 bits; the sign is applied
\* last so that the product is odd in each argument, as the double product is.
FMulAbs(x, y) == (x \div Scale) * y + ((x % Scale) * y) \div Scale
FMul(x, y) == Sgn(x) * Sgn(y) * FMulAbs(Abs(x), Abs(y))

\* Math.sin at the whole degrees 1..90, rounded to 1/Scale (sin 0 = 0).
SinTable ==
    <<175,   349,   523,   698,   872,  1045,  1219,  1392,  1564,  1736,
        1908,  2079,  2250,  2419,  2588,  2756,  2924,  3090,  3256,  3420,
        3584,  3746,  3907,  4067,  4226,  4384,  4540,  4695,  4848,  5000,
        5150,  5299,  5446,  5592,  5736,  5878,  6018,  6157,  6293,  6428,
        6561,  6691,  6820,  6947,  7071,  7193,  7314,  7431,  7547,  7660,
        7771,  7880,  7986,  8090,  8192,  8290,  8387,  8480,  8572,  8660,
        8746,  8829,  8910,  8988,  9063,  9135,  9205,  9272,  9336,  9397,
        9455,  9511,  9563,  9613,  9659,  9703,  9744,  9781,  9816,  9848,
        9877,  9903,  9925,  9945,  9962,  9976,  9986,  9994,  9998, 10000>>

\* sin of a centidegrees, 0 <= a <= 9000: linear between the whole degrees.
Interpolate(s0, s1, r) == s0 + ((s1 - s0) * r) \div 100

SinWhole(q) == IF q = 0 THEN 0 ELSE SinTable[q]

SinQuarter(a) ==
    IF a = 9000 THEN SinTable[90]
    ELSE Interpolate(SinWhole(a \div 100), SinTable[a \div 100 + 1], a % 100)

\* Math.sin(a * Math.PI / 180), a in centidegrees, any sign and size.
SinTurn(m) ==
    IF m <= 9000 THEN SinQuarter(m)
    ELSE IF m <= 18000 THEN SinQuarter(18000 - m)
    ELSE IF m <= 27000 THEN -SinQuarter(m - 18000)
    ELSE -SinQuarter(36000 - m)

SinDeg(a) == SinTurn(a % 36000)

\* Math.cos(a * Math.PI / 180).
CosDeg(a) == SinDeg(a + 9000)

\* Math.tan(90 * Math.PI / 180) is 1.633e16 in doubles (the double nearest pi/2
\* lies below pi/2), not infinity: a finite value larger than the reciprocal of
\* every non-zero tangent the engine multiplies it by.
TanHuge == 10^5 * Scale

\* sine over cosine.
Quotient(s, c) ==
    IF c = 0 THEN Sgn(s) * TanHuge ELSE Sgn(s) * ((Abs(s) * Scale) \div c)

\* Math.tan(a * Math.PI / 180) for -9000 <= a <= 9000.
TanDeg(a) == Quotient(SinDeg(a), CosDeg(a))

\* Math.acos(c) * 180 / Math.PI for -Scale <= c <= Scale: the least angle of
\* [0, 180] degrees whose cosine is at most c, by bisection on [lo, hi] with
\* CosDeg(hi) <= c and (lo = -1 or CosDeg(lo) > c).
RECURSIVE AcosBisect(_, _, _)
AcosStep(c, lo, mid, hi) ==
    IF CosDeg(mid) <= c THEN AcosBisect(c, lo, mid) ELSE AcosBisect(c, mid, hi)

AcosBisect(c, lo, hi) ==
    IF hi - lo <= 1 THEN hi ELSE AcosStep(c, lo, (lo + hi) \div 2, hi)

AcosDeg(c) == AcosBisect(c, -1, 18000)

(***************************************************************************)
(* Bounds of the model.                                                    *)
(***************************************************************************)
\* The clock runs from December 1 of FirstYear to the end of the NumYears-th
\* calendar year counted from FirstYear.
FirstYear == 2023
NumYears == 4
\* getSunTimes is applied to the days 0..MaxDayOfYear.
MaxDayOfYear == 366
\* ... and to LatGrid + 1 evenly spaced latitudes from -90 to 90 degrees.
LatGrid == 60
\* getDaysInYear is applied to the ProbeYears years before 2120.
ProbeYears == 240
\* getMoonPhase is applied to the MoonDays days either side of the reference
\* new moon, and shifted by up to MaxPeriods synodic periods either way.
MoonDays == 45
MaxPeriods == 3
\* moonPhasePath is applied to every phase from PhaseTurns cycles below 0 to
\* PhaseTurns cycles above 1.
PhaseTurns == 1
\* getMoonTimes is applied to the first MoonTimesDays days of FirstYear.
MoonTimesDays == 28

(***************************************************************************)
(* Program constants.                                                      *)
(***************************************************************************)
SVG_SIZE == 800
CENTER == SVG_SIZE \div 2
ORBIT_RADIUS == 210
WINTER_SOLSTICE_DAY == 355
DEFAULT_CITY_INDEX == 0
MOON_ICON_RADIUS == 8

\* config.ts: latitude and longitude in centidegrees.  CITIES[i + 1] is the
\* code's CITIES[i].
CITIES ==
    << [name |-> "New York", latitude |-> 4071, longitude |-> -7401],
       [name |-> "London", latitude |-> 5151, longitude |-> -13],
       [name |-> "Tokyo", latitude |-> 3568, longitude |-> 13965],
       [name |-> "Paris", latitude |-> 4886, longitude |-> 235],
       [name |-> "Sydney", latitude |-> -3387, longitude |-> 15121],
       [name |-> "Dubai", latitude |-> 2520, longitude |-> 5527],
       [name |-> "Singapore", latitude |-> 135, longitude |-> 10382],
       [name |-> "Hong Kong", latitude |-> 2232, longitude |-> 11417],
       [name |-> "Los Angeles", latitude |-> 3405, longitude |-> -11824],
       [name |-> "Shanghai", latitude |-> 3123, longitude |-> 12147],
       [name |-> "Mumbai", latitude |-> 1908, longitude |-> 7288],
       [name |-> "Sao Paulo", latitude |-> -2355, longitude |-> -4663],
       [name |-> "Mexico City", latitude |-> 1943, longitude |-> -9913],
       [name |-> "Cairo", latitude |-> 3004, longitude |-> 3124],
       [name |-> "Moscow", latitude |-> 5576, longitude |-> 3762],
       [name |-> "Istanbul", latitude |-> 4101, longitude |-> 2898],
       [name |-> "Buenos Aires", latitude |-> -3460, longitude |-> -5838],
       [name |-> "Seoul", latitude |-> 3757, longitude |-> 12698],
       [name |-> "Lagos", latitude |-> 652, longitude |-> 338],
       [name |-> "Jakarta", latitude |-> -621, longitude |-> 10685],
       [name |-> "Berlin", latitude |-> 5252, longitude |-> 1340],
       [name |-> "Madrid", latitude |-> 4042, longitude |-> -370],
       [name |-> "Rome", latitude |-> 4190, longitude |-> 1250],
       [name |-> "Bangkok", latitude |-> 1376, longitude |-> 10050],
       [name |-> "Toronto", latitude |-> 4365, longitude |-> -7938],
       [name |-> "Chicago", latitude |-> 4188, longitude |-> -8763],
       [name |-> "Nairobi", latitude |-> -129, longitude |-> 3682],
       [name |-> "Lima", latitude |-> -1205, longitude |-> -7704],
       [name |-> "Tehran", latitude |-> 3569, longitude |-> 5139],
       [name |-> "Bogota", latitude |-> 471, longitude |-> -7407],
       [name |-> "Delhi", latitude |-> 2861, longitude |-> 7721],
       [name |-> "Ho Chi Minh City", latitude |-> 1082, longitude |-> 10663],
       [name |-> "Johannesburg", latitude |-> -2620, longitude |-> 2805],
       [name |-> "Stockholm", latitude |-> 5933, longitude |-> 1807],
       [name |-> "Athens", latitude |-> 3798, longitude |-> 2373],
       [name |-> "Lisbon", latitude |-> 3872, longitude |-> -914],
       [name |-> "Vienna", latitude |-> 4821, longitude |-> 1637],
       [name |-> "Warsaw", latitude |-> 5223, longitude |-> 2101],
       [name |-> "Riyadh", latitude |-> 2471, longitude |-> 4668],
       [name |-> "Kuala Lumpur", latitude |-> 314, longitude |-> 10169],
       [name |-> "Cape Town", latitude |-> -3392, longitude |-> 1842],
       [name |-> "Santiago", latitude |-> -3345, longitude |-> -7067],
       [name |-> "Manila", latitude |-> 1460, longitude |-> 12098],
       [name |-> "Taipei", latitude |-> 2503, longitude |-> 12157],
       [name |-> "San Francisco", latitude |-> 3777, longitude |-> -12242],
       [name |-> "Auckland", latitude |-> -3685, longitude |-> 17476],
       [name |-> "Reykjavik", latitude |-> 6415, longitude |-> -2194],
       [name |-> "Anchorage", latitude |-> 6122, longitude |-> -14990],
       [name |-> "Beijing", latitude |-> 3990, longitude |-> 11641],
       [name |-> "Casablanca", latitude |-> 3357, longitude |-> -759] >>

CityAt(i) == CITIES[i + 1]

(***************************************************************************)
(* Doubles that are not numbers.                                           *)
(***************************************************************************)
\* NaN: a value no computation of the engine produces otherwise.
NaN == -(10^9) - 1

\* Math.acos(c) * 180 / Math.PI as the code calls it: NaN outside [-1, 1].
MathAcosDeg(c) ==
    IF c = NaN \/ c < -Scale \/ c > Scale THEN NaN ELSE AcosDeg(c)

(***************************************************************************)
(* getSunTimes                                                             *)
(***************************************************************************)
\* ((360 / 365) * (dayOfYear - 81)) in centidegrees.
SunAngle(d) == Sgn(d - 81) * ((36000 * Abs(d - 81)) \div 365)

\* declination = 23.45 * Math.sin(... * Math.PI / 180), in centidegrees.
Times2345(s) == Sgn(s) * ((2345 * Abs(s)) \div Scale)

Declination(d) == Times2345(SinDeg(SunAngle(d)))

\* CosOmega with Math.cos(latRad) in place of Math.tan(latRad).
CosOmegaCosLat(d, lat) == -FMul(CosDeg(lat), TanDeg(Declination(d)))

\* cosOmega = -Math.tan(latRad) * Math.tan(declRad)
CosOmega(d, lat) == -FMul(TanDeg(lat), TanDeg(Declination(d)))

AlwaysDay == [sunrise |-> 0, sunset |-> 24 * HourUnit]
AlwaysNight == [sunrise |-> 12 * HourUnit, sunset |-> 12 * HourUnit]

\* omega / 15 hours is omega centidegrees in units of 1/HourUnit hour.
\* AroundNoon with the two signs exchanged.
AroundNoonSwapped(omega) ==
    IF omega = NaN THEN [sunrise |-> NaN, sunset |-> NaN]
    ELSE [sunrise |-> 12 * HourUnit + omega, sunset |-> 12 * HourUnit - omega]

\* AroundNoon with the sunset an hour late.
AroundNoonLateSunset(omega) ==
    IF omega = NaN THEN [sunrise |-> NaN, sunset |-> NaN]
    ELSE [sunrise |-> 12 * HourUnit - omega, sunset |-> 13 * HourUnit + omega]

\* { sunrise: 12 - omega / 15, sunset: 12 + omega / 15 }
AroundNoon(omega) ==
    IF omega = NaN THEN [sunrise |-> NaN, sunset |-> NaN]
    ELSE [sunrise |-> 12 * HourUnit - omega, sunset |-> 12 * HourUnit + omega]

SunTimesOf(cosOmega) ==
    IF cosOmega < -Scale THEN AlwaysDay
    ELSE IF cosOmega > Scale THEN AlwaysNight
    ELSE AroundNoon(MathAcosDeg(cosOmega))

\* getSunTimes without its two guards: acos is handed every cosOmega.
getSunTimesUnguarded(d, lat) == AroundNoon(MathAcosDeg(CosOmega(d, lat)))

\* getSunTimes with the two sentinels exchanged.
SunTimesOfSwapped(cosOmega) ==
    IF cosOmega < -Scale THEN AlwaysNight
    ELSE IF cosOmega > Scale THEN AlwaysDay
    ELSE AroundNoon(MathAcosDeg(cosOmega))

getSunTimesSwapped(d, lat) == SunTimesOfSwapped(CosOmega(d, lat))

getSunTimes(d, lat) == SunTimesOf(CosOmega(d, lat))

(***************************************************************************)
(* The platform's Date (ECMAScript 21.4.1), in minutes instead of          *)
(* milliseconds.  A Date is held by its local fields: ldn, the number of   *)
(* the local calendar day counted from 1970-01-01, and minute, the minute  *)
(* of that day on the local clock.                                         *)
(***************************************************************************)
MinutesPerDay == 24 * 60

\* DayFromYear(y): the day number of January 1 of year y.
DayFromYear(y) ==
    365 * (y - 1970) + ((y - 1969) \div 4) - ((y - 1901) \div 100)
        + ((y - 1601) \div 400)

\* YearFromTime: the year whose days include day number n.
YearNear(n, g) ==
    IF n < DayFromYear(g) THEN g - 1
    ELSE IF n < DayFromYear(g + 1) THEN g
    ELSE g + 1

YearFromDay(n) == YearNear(n, 1970 + (n * 400) \div 146097)

InLeapYear(y) == DayFromYear(y + 1) - DayFromYear(y) = 366

\* The days of a 365-day year before each month, and before the month after
\* December.
MonthStart == <<0, 31, 59, 90, 120, 151, 181, 212, 243, 273, 304, 334, 365>>

\* The days of year y before its month m (0 = January).
DaysBeforeMonth(y, m) ==
    MonthStart[m + 1] + (IF m >= 2 /\ InLeapYear(y) THEN 1 ELSE 0)

\* new Date(year, month, date): local midnight; the constructor reads a year
\* 0..99 as 1900 + year; a date past the month's end runs into the next month
\* and date 0 is the last day of the month before.
MakeDate(y, month, date) ==
    [ldn |-> DayFromYear(y) + DaysBeforeMonth(y, month) + date - 1, minute |-> 0]

NewDate(year, month, date) ==
    MakeDate(IF 0 <= year /\ year <= 99 THEN 1900 + year ELSE year, month, date)

getFullYear(date) == YearFromDay(date.ldn)

\* The 1-based ordinal of the Date's local calendar day within its year.
DayWithinYear(date) == date.ldn - DayFromYear(getFullYear(date)) + 1

RECURSIVE MonthOfOrdinal(_, _, _)
\* The month (0 = January) holding the ordinal-th day of year y, from month m on.
MonthOfOrdinal(y, ordinal, m) ==
    IF ordinal <= DaysBeforeMonth(y, m + 1) THEN m ELSE MonthOfOrdinal(y, ordinal, m + 1)

getMonth(date) == MonthOfOrdinal(getFullYear(date), DayWithinYear(date), 0)

\* getDate(): the day of the month.
getDate(date) ==
    DayWithinYear(date) - DaysBeforeMonth(getFullYear(date), getMonth(date))

\* The time zones of the system clock: one without daylight saving, one of the
\* northern hemisphere (daylight saving from March 12 to November 5) and one of
\* the southern (daylight saving from October 1 to April 2).
Zones == {"UTC", "America/New_York", "Australia/Sydney"}

StandardOffset(tz) ==
    IF tz = "America/New_York" THEN -5 * 60
    ELSE IF tz = "Australia/Sydney" THEN 10 * 60
    ELSE 0

DstStartNorth == 31 + 28 + 12
DstEndNorth == 304 + 5
DstEndSouth == 31 + 28 + 31 + 2
DstStartSouth == 273 + 1

\* Whether <<ordinal, minute>> is at or after <<day, 02:00>>.
AtOrAfter(ordinal, minute, day) ==
    ordinal > day \/ (ordinal = day /\ minute >= 2 * 60)

\* Whether daylight saving is in force on the ordinal-th day of a year at the
\* local minute.
InDst(tz, ordinal, minute) ==
    IF tz = "America/New_York"
    THEN AtOrAfter(ordinal, minute, DstStartNorth) /\ ~AtOrAfter(ordinal, minute, DstEndNorth)
    ELSE IF tz = "Australia/Sydney"
    THEN ~AtOrAfter(ordinal, minute, DstEndSouth) \/ AtOrAfter(ordinal, minute, DstStartSouth)
    ELSE FALSE

\* Local time minus UTC, in minutes, at a local date and time.
ZoneOffset(tz, date) ==
    StandardOffset(tz)
        + (IF InDst(tz, DayWithinYear(date), date.minute) THEN 60 ELSE 0)

\* getTime(): minutes since 1970-01-01T00:00Z.
getTime(date, tz) ==
    date.ldn * MinutesPerDay + date.minute - ZoneOffset(tz, date)

(***************************************************************************)
(* getDayOfYear, getDaysInYear, getOrbitAngle                              *)
(***************************************************************************)
\* start = new Date(date.getFullYear(), 0, 0); diff = date.getTime() - start.getTime()
getDayOfYear(date, tz) ==
    (getTime(date, tz) - getTime(NewDate(getFullYear(date), 0, 0), tz)) \div MinutesPerDay

\* getDaysInYear by the rule "every fourth year".
getDaysInYearDiv4(date) == IF getFullYear(date) % 4 = 0 THEN 366 ELSE 365

getDaysInYear(date) ==
    IF getDate(NewDate(getFullYear(date), 1, 29)) = 29 THEN 366 ELSE 365

\* JavaScript's %: the remainder has the sign of the dividend.
JsRem(a, n) == Sgn(a) * (Abs(a) % n)

\* The angle in units of 1/AngleDen degree: fraction * 360 is exact.
\* OrbitAngleOf with a fixed 365 in place of daysInYear.
OrbitAngleOf365(dayOfYear, daysInYear) ==
    90 * AngleDen
        + JsRem(dayOfYear - WINTER_SOLSTICE_DAY + 365, 365) * 360 * (AngleDen \div 365)

\* OrbitAngleOf without the "% daysInYear".
OrbitAngleOfNoRem(dayOfYear, daysInYear) ==
    90 * AngleDen
        + (dayOfYear - WINTER_SOLSTICE_DAY + daysInYear) * 360 * (AngleDen \div daysInYear)

OrbitAngleOf(dayOfYear, daysInYear) ==
    90 * AngleDen
        + JsRem(dayOfYear - WINTER_SOLSTICE_DAY + daysInYear, daysInYear)
            * 360 * (AngleDen \div daysInYear)

getOrbitAngle(date, tz) == OrbitAngleOf(getDayOfYear(date, tz), getDaysInYear(date))

(***************************************************************************)
(* getMoonPhase.  Days are counted in units of 1/PhaseUnit minute, the     *)
(* finest unit in which the instants of a few decades stay inside 32 bits; *)
(* the synodic period is not a whole number of minutes, as it is not a     *)
(* whole number of the Date's milliseconds.  A phase is the integer number *)
(* of units since the last new moon, out of SYNODIC_PERIOD.                *)
(***************************************************************************)
PhaseUnit == 100

\* 29.53058770576 days = 42524.0463 minutes.
SYNODIC_PERIOD == 4252405

\* Date.UTC(year, month, date, hours, minutes, 0), in minutes.
DateUTC(year, month, date, hours, minutes) ==
    MakeDate(year, month, date).ldn * MinutesPerDay + hours * 60 + minutes

\* new Date(time) in the zone UTC: the Date of a time value in minutes.
DateOfTime(time) ==
    [ldn |-> time \div MinutesPerDay, minute |-> time % MinutesPerDay]

\* Reference new moon: January 6, 2000 18:14 UTC
refNewMoon == DateUTC(2000, 0, 6, 18, 14)

\* ((daysSinceRef % SYNODIC_PERIOD) + SYNODIC_PERIOD) % SYNODIC_PERIOD
WrapPhase(daysSinceRef) ==
    JsRem(JsRem(daysSinceRef, SYNODIC_PERIOD) + SYNODIC_PERIOD, SYNODIC_PERIOD)

\* MoonPhaseAt with a single "% SYNODIC_PERIOD".
MoonPhaseAtOneRem(time) == JsRem((time - refNewMoon) * PhaseUnit, SYNODIC_PERIOD)

\* MoonPhaseAt with midnight of January 6, 2000 as the reference.
MoonPhaseAtMidnightRef(time) ==
    WrapPhase((time - DateUTC(2000, 0, 6, 0, 0)) * PhaseUnit)

\* The phase at a time value: daysSinceRef = (date.getTime() - refNewMoon) / 86400000
MoonPhaseAt(time) == WrapPhase((time - refNewMoon) * PhaseUnit)

getMoonPhase(date, tz) == MoonPhaseAt(getTime(date, tz))

(***************************************************************************)
(* moonPhasePath.  A phase handed to it is an integer number of 1/den of a *)
(* cycle; the string it returns is held by its parts.                      *)
(***************************************************************************)
\* The unit of a phase handed to moonPhasePath on its own: 1/PhaseDen cycle.
PhaseDen == 10^4

\* phase = ((phase % 1) + 1) % 1
ReducePhase(phase, den) == JsRem(JsRem(phase, den) + den, den)

\* phase * 2 * Math.PI as an angle in centidegrees.
PhaseAngle(phase, den) == (phase * 360) \div (den \div 100)

\* `M cx cy-r A r r 0 0 sweep cx cy+r A rx r 0 0 sweepTerminator cx cy-r`;
\* rx = Math.abs(k) * r is held in units of 1/Scale.
LitPath(cx, cy, r, k, sweep, sweepTerminator) ==
    [text       |-> "path",
     M          |-> [x |-> cx, y |-> cy - r],
     limb       |-> [rx |-> r * Scale, ry |-> r, sweep |-> sweep,
                     x |-> cx, y |-> cy + r],
     terminator |-> [rx |-> Abs(k) * r, ry |-> r, sweep |-> sweepTerminator,
                     x |-> cx, y |-> cy - r]]

\* PathFor with the terminator's two sweep flags exchanged.
PathForFlipped(cx, cy, r, phase, den, k) ==
    IF 2 * phase < den
    THEN LitPath(cx, cy, r, k, 1, IF k > 0 THEN 1 ELSE 0)
    ELSE LitPath(cx, cy, r, k, 0, IF k > 0 THEN 0 ELSE 1)

\* if (phase < 0.5) ... else ..., k = Math.cos(phase * 2 * Math.PI)
PathFor(cx, cy, r, phase, den, k) ==
    IF 2 * phase < den
    THEN LitPath(cx, cy, r, k, 1, IF k > 0 THEN 0 ELSE 1)
    ELSE LitPath(cx, cy, r, k, 0, IF k > 0 THEN 1 ELSE 0)

\* ReducedPath with the bounds of its windows inside the windows.
ReducedPathClosed(cx, cy, r, phase, den) ==
    IF 100 * phase <= den \/ 100 * phase >= 99 * den THEN [text |-> ""]
    ELSE IF 100 * Abs(2 * phase - den) <= 2 * den THEN [text |-> "full"]
    ELSE PathFor(cx, cy, r, phase, den, CosDeg(PhaseAngle(phase, den)))

\* The body of moonPhasePath after the reduction of its phase:
\* phase < 0.01 || phase > 0.99, then Math.abs(phase - 0.5) < 0.01.
ReducedPath(cx, cy, r, phase, den) ==
    IF 100 * phase < den \/ 100 * phase > 99 * den THEN [text |-> ""]
    ELSE IF 100 * Abs(2 * phase - den) < 2 * den THEN [text |-> "full"]
    ELSE PathFor(cx, cy, r, phase, den, CosDeg(PhaseAngle(phase, den)))

MoonPathOf(cx, cy, r, phase, den) ==
    ReducedPath(cx, cy, r, ReducePhase(phase, den), den)

moonPhasePath(cx, cy, r, phase) == MoonPathOf(cx, cy, r, phase, PhaseDen)

(***************************************************************************)
(* getMoonTimes.  The instant is held as the whole days and the minutes    *)
(* of the day since J2000 (jd - 2451545.0), the mean elements in units of  *)
(* 1/10000 degree before their reduction to centidegrees.                  *)
(***************************************************************************)
\* null: a value that is no number.
Null == -(10^9) - 2

\* jd - 2451545.0 = date.getTime() / 86400000 + 2440587.5 - 2451545.0, in minutes.
SinceJ2000(time) == time - DateUTC(2000, 0, 1, 12, 0)

\* x cut towards zero to a multiple of unit, in units.
Cut(x, unit) == Sgn(x) * (Abs(x) \div unit)

\* (a + b * T) % 360 in centidegrees, for a in 1/10000 degree and b / 36525 =
\* rate + fine / 100 in 1/10000 degree per day, at days + minutes / 1440 days
\* since J2000.
MeanElement(a, rate, fine, days, minutes) ==
    Cut(JsRem(a + days * rate + (days * fine) \div 100
                + (minutes * rate) \div MinutesPerDay, 360 * 10^4), 100)

\* L0 = (218.316 + 481267.8813 * T) % 360
MoonL0(days, minutes) == MeanElement(2183160, 131763, 96, days, minutes)
\* M = (134.963 + 477198.8676 * T) % 360
MoonM(days, minutes) == MeanElement(1349630, 130649, 93, days, minutes)
\* F = (93.272 + 483202.0175 * T) % 360
MoonF(days, minutes) == MeanElement(932720, 132293, 50, days, minutes)

\* coefficient * Math.sin(...) in centidegrees, the coefficient in 1/1000 degree.
TimesSine(coefficient, sine) == Cut(coefficient * sine, 10 * Scale)

\* lambda = L0 + 6.289 * Math.sin(M * toRad)
MoonLambda(days, minutes) ==
    MoonL0(days, minutes) + TimesSine(6289, SinDeg(MoonM(days, minutes)))

\* beta = 5.128 * Math.sin(F * toRad)
MoonBeta(days, minutes) == TimesSine(5128, SinDeg(MoonF(days, minutes)))

\* epsilon = 23.439 - 0.00000036 * (jd - 2451545.0)
MoonEpsilon(days) == (2343900 - (36 * days) \div 1000) \div 1000

\* sinDec = sin(beta) * cos(epsilon) + cos(beta) * sin(epsilon) * sin(lambda)
SinDecOf(lambda, beta, epsilon) ==
    FMul(SinDeg(beta), CosDeg(epsilon))
        + FMul(FMul(CosDeg(beta), SinDeg(epsilon)), SinDeg(lambda))

\* Math.asin(c) * 180 / Math.PI.
AsinDeg(c) == 9000 - AcosDeg(c)

\* The integer square root, by bisection on [lo, hi) .
RECURSIVE SqrtBisect(_, _, _)
SqrtStep(n, lo, mid, hi) ==
    IF mid * mid <= n THEN SqrtBisect(n, mid, hi) ELSE SqrtBisect(n, lo, mid)

SqrtBisect(n, lo, hi) ==
    IF hi - lo <= 1 THEN lo ELSE SqrtStep(n, lo, (lo + hi) \div 2, hi)

\* Math.atan2(y, x) * 180 / Math.PI in (-180, 180], from the cosine x / r.
AngleOf(y, x, r) ==
    IF r = 0 THEN 0
    ELSE IF y < 0 THEN -AcosDeg(Cut(x * Scale, r))
    ELSE AcosDeg(Cut(x * Scale, r))

Atan2Deg(y, x) == AngleOf(y, x, SqrtBisect(x * x + y * y, 0, 4 * Scale))

\* y = sin(lambda) * cos(epsilon) - tan(beta) * sin(epsilon); x = cos(lambda);
\* ra = Math.atan2(y, x)
RaOf(lambda, beta, epsilon) ==
    Atan2Deg(FMul(SinDeg(lambda), CosDeg(epsilon)) - FMul(TanDeg(beta), SinDeg(epsilon)),
             CosDeg(lambda))

\* dec and ra at an instant, in centidegrees.
MoonDec(days, minutes) ==
    AsinDeg(SinDecOf(MoonLambda(days, minutes), MoonBeta(days, minutes), MoonEpsilon(days)))

MoonRa(days, minutes) ==
    RaOf(MoonLambda(days, minutes), MoonBeta(days, minutes), MoonEpsilon(days))

\* Math.sin(h0), h0 = 0.125 * toRad: 0.00218.
SinH0 == 22

\* cosH = (sin(h0) - sin(latRad) * sin(dec)) / (cos(latRad) * cos(dec))
CosH(latitude, dec) ==
    Quotient(SinH0 - FMul(SinDeg(latitude), SinDeg(dec)),
             FMul(CosDeg(latitude), CosDeg(dec)))

\* gmst0 = (280.46061837 + 360.98564736629 * (jd - 2451545.0)) % 360, in
\* centidegrees; the daily rate less its whole turn, in 1/100000 degree.
Gmst0(days, minutes) ==
    Cut(JsRem(28046062 + days * 98565 + minutes * 25068, 360 * 10^5), 1000)

\* azToDir with its sectors starting at the compass points.
azToDirFromPoint(az) ==
    IF az = NaN THEN "NW"
    ELSE IF az < 4500 THEN "N"
    ELSE IF az < 9000 THEN "NE"
    ELSE IF az < 13500 THEN "E"
    ELSE IF az < 18000 THEN "SE"
    ELSE IF az < 22500 THEN "S"
    ELSE IF az < 27000 THEN "SW"
    ELSE IF az < 31500 THEN "W"
    ELSE "NW"

\* azToDir(az), az in centidegrees; every comparison with NaN is false.
azToDir(az) ==
    IF az = NaN THEN "NW"
    ELSE IF az < 2250 \/ az >= 33750 THEN "N"
    ELSE IF az < 6750 THEN "NE"
    ELSE IF az < 11250 THEN "E"
    ELSE IF az < 15750 THEN "SE"
    ELSE IF az < 20250 THEN "S"
    ELSE IF az < 24750 THEN "SW"
    ELSE IF az < 29250 THEN "W"
    ELSE "NW"

\* transit = ((ra * toDeg - gmst0 - longitude + 720) % 360) / 360 * 24: a
\* centidegree is 1/HourUnit hour.
Transit(ra, gmst0, longitude) == JsRem(ra - gmst0 - longitude + 72000, 36000)

\* ((hour % 24) + 24) % 24
NormalizeHour(hour) ==
    JsRem(JsRem(hour, 24 * HourUnit) + 24 * HourUnit, 24 * HourUnit)

\* cosAz = Math.sin(dec) / Math.cos(latRad)
CosAz(latitude, dec) == Quotient(SinDeg(dec), CosDeg(latitude))

\* azSet = 360 - azRise
AzSet(azRise) == IF azRise = NaN THEN NaN ELSE 36000 - azRise

\* The result of getMoonTimes; acos holds, in the order of their evaluation,
\* the arguments the call handed to Math.acos.
\* RiseAndSet without the reduction of rise and set to 0-24.
RiseAndSetRaw(transit, hourAngle, azRise, acos) ==
    [moonrise    |-> transit - hourAngle,
     moonset     |-> transit + hourAngle,
     moonriseDir |-> azToDir(azRise),
     moonsetDir  |-> azToDir(AzSet(azRise)),
     acos        |-> acos]

\* RiseAndSet with the directions left empty.
RiseAndSetNoDir(transit, hourAngle, azRise, acos) ==
    [moonrise    |-> NormalizeHour(transit - hourAngle),
     moonset     |-> NormalizeHour(transit + hourAngle),
     moonriseDir |-> "",
     moonsetDir  |-> "",
     acos        |-> acos]

\* rise = transit - (H * toDeg / 15), set = transit + (H * toDeg / 15), both
\* normalized to 0-24, and the directions of azRise and azSet.
RiseAndSet(transit, hourAngle, azRise, acos) ==
    [moonrise    |-> NormalizeHour(transit - hourAngle),
     moonset     |-> NormalizeHour(transit + hourAngle),
     moonriseDir |-> azToDir(azRise),
     moonsetDir  |-> azToDir(AzSet(azRise)),
     acos        |-> acos]

\* H = Math.acos(cosH), then azRise = Math.acos(cosAz) * toDeg
RiseAndSetOf(transit, cosH, cosAz) ==
    RiseAndSet(transit, MathAcosDeg(cosH), MathAcosDeg(cosAz), <<cosH, cosAz>>)

\* Moon never sets (circumpolar)
NeverSets ==
    [moonrise |-> 0, moonset |-> Null, moonriseDir |-> "", moonsetDir |-> "",
     acos |-> <<>>]
\* Moon never rises
NeverRises ==
    [moonrise |-> Null, moonset |-> Null, moonriseDir |-> "", moonsetDir |-> "",
     acos |-> <<>>]

\* MoonTimesFor with the two sentinels exchanged.
MoonTimesForSwapped(cosH, ra, gmst0, latitude, longitude, dec) ==
    IF cosH < -Scale THEN NeverRises
    ELSE IF cosH > Scale THEN NeverSets
    ELSE RiseAndSetOf(Transit(ra, gmst0, longitude), cosH, CosAz(latitude, dec))

\* The body of getMoonTimes from its two guards on.
MoonTimesFor(cosH, ra, gmst0, latitude, longitude, dec) ==
    IF cosH < -Scale THEN NeverSets
    ELSE IF cosH > Scale THEN NeverRises
    ELSE RiseAndSetOf(Transit(ra, gmst0, longitude), cosH, CosAz(latitude, dec))

\* The body of getMoonTimes from latRad on.
MoonTimesOf(dec, ra, gmst0, latitude, longitude) ==
    MoonTimesFor(CosH(latitude, dec), ra, gmst0, latitude, longitude, dec)

MoonTimesAt(days, minutes, latitude, longitude) ==
    MoonTimesOf(MoonDec(days, minutes), MoonRa(days, minutes), Gmst0(days, minutes),
                latitude, longitude)

MoonTimesSince(n, latitude, longitude) ==
    MoonTimesAt(n \div MinutesPerDay, n % MinutesPerDay, latitude, longitude)

getMoonTimes(date, tz, latitude, longitude) ==
    MoonTimesSince(SinceJ2000(getTime(date, tz)), latitude, longitude)

(***************************************************************************)
(* The SunClock component: its state, and what one render computes.        *)
(***************************************************************************)
(***************************************************************************)
(* formatTime: an hour of the day as a 12-hour clock time.  The text       *)
(* `${h12}:${mins padded to two digits} ${ampm}` is kept as its parts.     *)
(***************************************************************************)
\* const hrs = Math.floor(h)
FloorHours(h) == h \div HourUnit

\* const mins = Math.floor((h - hrs) * 60)
FloorMinutes(h) == ((h - FloorHours(h) * HourUnit) * 60) \div HourUnit

\* const ampm = hrs >= 12 ? 'pm' : 'am'
AmPm(hrs) == IF hrs >= 12 THEN "pm" ELSE "am"

\* const h12 = hrs % 12 || 12
H12(hrs) == IF JsRem(hrs, 12) = 0 THEN 12 ELSE JsRem(hrs, 12)

formatTime(h) ==
    IF h = Null THEN [text |-> "--:--"]
    ELSE [text |-> "h:mm", h12 |-> H12(FloorHours(h)), mins |-> FloorMinutes(h),
          ampm |-> AmPm(FloorHours(h))]

VARIABLES
    now,            \* useState(() => new Date()): the instant last sampled
    zone,           \* the time zone of the system clock
    cityIndex,      \* useState(DEFAULT_CITY_INDEX)
    showCityPicker, \* useState(false)
    view,           \* what the last render computed from the state
    bgMode,         \* useState<'darkBlue' | 'black' | 'daylight'>
    showWeather,    \* useState(() => ... 'sunClock_showWeather' === 'true')
    localStorage,   \* the items the component reads and writes
    weatherIcon,    \* useState<string | null>(null): 0, or the fetch it is from
    weatherForecast, \* useState<string | null>(null): 0, or the fetch it is from
    fetches,        \* the calls of fetchWeather(), in the order of their start
    input,          \* the arguments of an engine function called on its own
    output,         \* ... what it returned
    called          \* ... whether it has been called

vars == <<now, zone, cityIndex, showCityPicker, view, bgMode, showWeather, localStorage,
          weatherIcon, weatherForecast, fetches, input, output, called>>
componentVars == <<now, zone, cityIndex, showCityPicker, view, bgMode, showWeather,
                   localStorage, weatherIcon, weatherForecast, fetches>>
settingVars == <<bgMode, showWeather, localStorage>>
weatherVars == <<weatherIcon, weatherForecast, fetches>>
engineVars == <<input, output, called>>

\* An orbit angle in centidegrees.
AngleCentideg(angle) == (angle * 10) \div (AngleDen \div 10)

\* r * cos or r * sin, rounded towards zero to whole SVG units.
Project(r, c) == Sgn(c) * ((r * Abs(c)) \div Scale)

PolarAt(cx, cy, r, a) ==
    [x |-> cx + Project(r, CosDeg(a)), y |-> cy + Project(r, SinDeg(a))]

polarToCartesian(cx, cy, r, angleDeg) == PolarAt(cx, cy, r, AngleCentideg(angleDeg))

(***************************************************************************)
(* The day and night wedges of the 24-hour dial.  Angles are in            *)
(* centidegrees; a path keeps the numbers of its text                      *)
(* `M cx cy L x1 y1 A r r 0 largeArc 1 x2 y2 Z`, and the sweep it was      *)
(* computed from.                                                          *)
(***************************************************************************)
DAY_CIRCLE_RADIUS == 85

\* ((hour - 6) / 24) * 360
hourToAngle(hour) ==
    IF hour = NaN THEN NaN ELSE ((hour - 6 * HourUnit) * 36000) \div (24 * HourUnit)

\* let sweep = endAngle - startAngle; if (sweep < 0) sweep += 360;
ArcSweep(startAngle, endAngle) ==
    IF startAngle = NaN \/ endAngle = NaN THEN NaN
    ELSE IF endAngle - startAngle < 0 THEN endAngle - startAngle + 36000
    ELSE endAngle - startAngle

\* const largeArc = sweep > 180 ? 1 : 0
LargeArc(sweep) == IF sweep # NaN /\ sweep > 18000 THEN 1 ELSE 0

\* cx + r * Math.cos(rad), cy + r * Math.sin(rad)
ArcPoint(cx, cy, r, angle) ==
    IF angle = NaN THEN [x |-> NaN, y |-> NaN]
    ELSE [x |-> cx + Project(r, CosDeg(angle)), y |-> cy + Project(r, SinDeg(angle))]

describeArc(cx, cy, r, startAngle, endAngle) ==
    [cx       |-> cx,
     cy       |-> cy,
     r        |-> r,
     from     |-> ArcPoint(cx, cy, r, startAngle),
     to       |-> ArcPoint(cx, cy, r, endAngle),
     sweep    |-> ArcSweep(startAngle, endAngle),
     largeArc |-> LargeArc(ArcSweep(startAngle, endAngle))]

\* dayPath runs from the sunrise angle to the sunset angle, nightPath from
\* the sunset angle to the sunrise angle.
Wedges(ex, ey, sunriseAngle, sunsetAngle) ==
    [sunriseAngle |-> sunriseAngle,
     sunsetAngle  |-> sunsetAngle,
     dayPath      |-> describeArc(ex, ey, DAY_CIRCLE_RADIUS, sunriseAngle, sunsetAngle),
     nightPath    |-> describeArc(ex, ey, DAY_CIRCLE_RADIUS, sunsetAngle, sunriseAngle)]

\* The wedges of the dial for the sun times of the day.
DayNight(ex, ey, solar) ==
    [solar |-> solar] @@ Wedges(ex, ey, hourToAngle(solar.sunrise), hourToAngle(solar.sunset))

(***************************************************************************)
(* getSkyColor.  Hours are in 1/HourUnit, colour channels and the star     *)
(* opacity in 1/ColorUnit; the fraction t of a segment is kept as the pair *)
(* num/den.  Besides bg (the three rounded channels of the rgb() text) and *)
(* starOpacity, a result names the branch taken and the t it used.         *)
(***************************************************************************)
ColorUnit == 1000

\* a + (b - a) * t
lerp(a, b, num, den) == a + Cut((b - a) * num, den)

lerpColor(c1, c2, num, den) ==
    [i \in 1..3 |-> lerp(c1[i] * ColorUnit, c2[i] * ColorUnit, num, den)]

\* Math.round of a channel that is not negative.
MathRound(x) == (x + ColorUnit \div 2) \div ColorUnit

\* const t = (hour - from) / (to - from), counted from the end of the segment.
SegmentTFromEnd(hour, from, to) == [num |-> to - hour, den |-> to - from]

\* const t = (hour - from) / (to - from)
SegmentT(hour, from, to) == [num |-> hour - from, den |-> to - from]

NoT == [num |-> 0, den |-> 1]

\* t < 0.5 ? lerpColor(c1, mid, t * 2) : lerpColor(mid, c2, (t - 0.5) * 2)
TwoSteps(c1, mid, c2, t) ==
    IF 2 * t.num < t.den THEN lerpColor(c1, mid, 2 * t.num, t.den)
    ELSE lerpColor(mid, c2, 2 * t.num - t.den, t.den)

black == <<0, 0, 0>>
deepNavy == <<8, 12, 30>>
twilight == <<25, 40, 80>>
dawn_blue == <<90, 130, 180>>
white == <<255, 255, 255>>
DefaultDaylight == <<240, 242, 245>>

SkyOf(branch, t, rgb, starOpacity) ==
    [branch      |-> branch,
     t           |-> t,
     rgb         |-> rgb,
     bg          |-> [i \in 1..3 |-> MathRound(rgb[i])],
     starOpacity |-> starOpacity]

Fixed(c) == [i \in 1..3 |-> c[i] * ColorUnit]

\* One segment that blends c1 into c2 and the star opacity from s1 to s2.
Blend(branch, t, c1, c2, s1, s2) ==
    SkyOf(branch, t, lerpColor(c1, c2, t.num, t.den), lerp(s1, s2, t.num, t.den))

\* One segment that blends c1 into c2 by way of mid.
BlendTwoSteps(branch, t, c1, mid, c2, s1, s2) ==
    SkyOf(branch, t, TwoSteps(c1, mid, c2, t), lerp(s1, s2, t.num, t.den))

\* The key time points.
preDawn(sunrise) == sunrise - (3 * HourUnit) \div 2
dawn(sunrise) == sunrise - HourUnit \div 2
dayStart(sunrise) == sunrise + (3 * HourUnit) \div 4
dayFull(sunrise) == sunrise + (11 * HourUnit) \div 4
dayEndFull(sunset) == sunset - (11 * HourUnit) \div 4
dayEnd(sunset) == sunset - (3 * HourUnit) \div 4
dusk(sunset) == sunset + HourUnit \div 2
postDusk(sunset) == sunset + (3 * HourUnit) \div 2

\* The chain of tests, in the order of the code.
getSkyColor(hour, sunrise, sunset, daylight) ==
    IF hour < preDawn(sunrise) THEN SkyOf("deep night", NoT, Fixed(black), ColorUnit)
    ELSE IF hour < dawn(sunrise) THEN
        Blend("pre-dawn", SegmentT(hour, preDawn(sunrise), dawn(sunrise)), black, deepNavy,
              ColorUnit, (6 * ColorUnit) \div 10)
    ELSE IF hour < sunrise THEN
        Blend("dawn twilight", SegmentT(hour, dawn(sunrise), sunrise), deepNavy, twilight,
              (6 * ColorUnit) \div 10, (2 * ColorUnit) \div 10)
    ELSE IF hour < dayStart(sunrise) THEN
        BlendTwoSteps("sunrise", SegmentT(hour, sunrise, dayStart(sunrise)), twilight,
                      dawn_blue, daylight, (2 * ColorUnit) \div 10, 0)
    ELSE IF hour < dayFull(sunrise) THEN
        Blend("early day", SegmentT(hour, dayStart(sunrise), dayFull(sunrise)), daylight,
              white, 0, 0)
    ELSE IF hour < dayEndFull(sunset) THEN SkyOf("full white", NoT, Fixed(white), 0)
    ELSE IF hour < dayEnd(sunset) THEN
        Blend("late day", SegmentT(hour, dayEndFull(sunset), dayEnd(sunset)), white,
              daylight, 0, 0)
    ELSE IF hour < sunset THEN
        Blend("pre-sunset", SegmentT(hour, dayEnd(sunset), sunset), daylight, dawn_blue, 0, 0)
    ELSE IF hour < dusk(sunset) THEN
        BlendTwoSteps("sunset", SegmentT(hour, sunset, dusk(sunset)), dawn_blue, twilight,
                      deepNavy, 0, (6 * ColorUnit) \div 10)
    ELSE IF hour < postDusk(sunset) THEN
        Blend("post-dusk", SegmentT(hour, dusk(sunset), postDusk(sunset)), deepNavy, black,
              (6 * ColorUnit) \div 10, ColorUnit)
    ELSE SkyOf("night", NoT, Fixed(black), ColorUnit)

labelOffset == 24

\* Season labels - flip names for Southern Hemisphere.
Seasons(isSouthern) ==
    << [label |-> IF isSouthern THEN "Summer" ELSE "Winter", date |-> "Dec 21",
        x |-> CENTER, y |-> CENTER + ORBIT_RADIUS + labelOffset],
       [label |-> IF isSouthern THEN "Winter" ELSE "Summer", date |-> "Jun 21",
        x |-> CENTER, y |-> CENTER - ORBIT_RADIUS - labelOffset + 4],
       [label |-> IF isSouthern THEN "Spring" ELSE "Autumn", date |-> "Sep 22",
        x |-> CENTER + ORBIT_RADIUS + labelOffset, y |-> CENTER + 8],
       [label |-> IF isSouthern THEN "Autumn" ELSE "Spring", date |-> "Mar 20",
        x |-> CENTER - ORBIT_RADIUS - labelOffset, y |-> CENTER + 8] >>

\* The body of SunClock(): the values one render derives from the state.
RenderOrbit(date, tz, city, baseOrbitAngle, orbitAngle) ==
    [city           |-> city,
     baseOrbitAngle |-> baseOrbitAngle,
     orbitAngle     |-> orbitAngle,
     earthPos       |-> polarToCartesian(CENTER, CENTER, ORBIT_RADIUS, orbitAngle),
     dayOfYear      |-> getDayOfYear(date, tz),
     daysInYear     |-> getDaysInYear(date),
     seasons        |-> Seasons(city.latitude < 0)]

\* Orbit position - flip for Southern Hemisphere so local season matches.
FlipOrbit(date, tz, city, baseOrbitAngle) ==
    RenderOrbit(date, tz, city, baseOrbitAngle,
                IF city.latitude < 0 THEN baseOrbitAngle + 180 * AngleDen
                ELSE baseOrbitAngle)

\* Sunrise/sunset and moonrise/moonset for the dial, and its wedges around
\* the earth.
RenderDial(date, tz, city, orbit) ==
    orbit
    @@ [moonTimes |-> getMoonTimes(date, tz, city.latitude, city.longitude)]
    @@ DayNight(orbit.earthPos.x, orbit.earthPos.y,
                getSunTimes(orbit.dayOfYear, city.latitude))

\* const city = CITIES[cityIndex], the default city whatever the index.
RenderDefaultCity(date, tz, index) ==
    RenderDial(date, tz, CityAt(index),
               FlipOrbit(date, tz, CityAt(DEFAULT_CITY_INDEX), getOrbitAngle(date, tz)))

\* const city = CITIES[cityIndex], and the render with it.
Render(date, tz, index) ==
    RenderDial(date, tz, CityAt(index),
               FlipOrbit(date, tz, CityAt(index), getOrbitAngle(date, tz)))

(***************************************************************************)
(* The persisted settings and the weather effect.  An item of localStorage *)
(* is a string, NoItem where getItem returns null.  A call of              *)
(* fetchWeather() is a record of the coordinates it asks for, the await it *)
(* is at and the cancelled flag of its effect; weatherIcon and             *)
(* weatherForecast hold the position in fetches of the call whose forecast *)
(* they were computed from, 0 for null.                                    *)
(***************************************************************************)
MaxFetches == 3

NoItem == "(null)"

EmptyStorage ==
    [sunClock_bgMode |-> NoItem, sunClock_dynamicSky |-> NoItem,
     sunClock_showWeather |-> NoItem]

modes == <<"darkBlue", "black", "daylight">>

\* modes.indexOf(bgMode), counted from 1.
IndexOfMode(mode) == CHOOSE k \in 1..Len(modes) : modes[k] = mode

\* The initializer of bgMode: the saved mode, or the old setting migrated.
InitialBgMode(storage) ==
    IF storage.sunClock_bgMode \in {"black", "daylight"} THEN storage.sunClock_bgMode
    ELSE IF storage.sunClock_dynamicSky = "true" THEN "daylight"
    ELSE "darkBlue"

\* localStorage.getItem('sunClock_showWeather') === 'true'
InitialShowWeather(storage) == storage.sunClock_showWeather = "true"

\* String(next)
BoolString(b) == IF b THEN "true" ELSE "false"

\* return () => { cancelled = true; }
Cleanup(fs) == [k \in 1..Len(fs) |-> [fs[k] EXCEPT !.cancelled = TRUE]]

\* let cancelled = false; fetchWeather(): the call is at its first await.
NewFetch(city) ==
    [latitude |-> city.latitude, longitude |-> city.longitude,
     stage |-> "points", cancelled |-> FALSE]

\* The weather effect, run after the cleanup of the run before it.
WeatherEffect(city, show) ==
    /\ show => Len(fetches) < MaxFetches
    /\ weatherIcon' = 0
    /\ weatherForecast' = 0
    /\ fetches' = IF show THEN Append(Cleanup(fetches), NewFetch(city))
                  ELSE Cleanup(fetches)

\* The effect runs again when [city.latitude, city.longitude, showWeather]
\* has changed.
WeatherEffectOnChange(city, toCity, show, toShow) ==
    IF city.latitude # toCity.latitude \/ city.longitude # toCity.longitude
         \/ show # toShow
    THEN WeatherEffect(toCity, toShow)
    ELSE UNCHANGED weatherVars

\* The state after the component has mounted with the stored items.
Mounted(storage, city) ==
    /\ localStorage = storage
    /\ bgMode = InitialBgMode(storage)
    /\ showWeather = InitialShowWeather(storage)
    /\ weatherIcon = 0
    /\ weatherForecast = 0
    /\ fetches = IF InitialShowWeather(storage) THEN <<NewFetch(city)>> ELSE <<>>

NoOutput == [none |-> TRUE]
EngineIdle == input = NoOutput /\ output = NoOutput /\ called = FALSE

(***************************************************************************)
(* The clock.  tick() samples new Date() on every animation frame: the     *)
(* instants sampled here are the TimesOfDay of each day in turn.           *)
(***************************************************************************)
\* Minutes of the day at which the clock is sampled: 00:00, 12:00 and 23:59
\* (none in the hour a daylight-saving change removes or repeats).
TimesOfDay == {0, 12 * 60, 23 * 60 + 59}
Noon == 12 * 60

LastDay == DayFromYear(FirstYear + NumYears) - 1

\* The sampled instants that follow date: later the same day, or the next day.
LaterInstants(date, times) ==
    {[ldn |-> date.ldn, minute |-> m] : m \in {t \in times : t > date.minute}}
        \cup (IF date.ldn < LastDay
              THEN {[ldn |-> date.ldn + 1, minute |-> m] : m \in times}
              ELSE {})

\* setNow(new Date()) and the render that follows.
SetNow(n) ==
    /\ now' = n
    /\ view' = Render(n, zone, cityIndex)
    /\ UNCHANGED <<zone, cityIndex, showCityPicker>>
    /\ UNCHANGED <<settingVars, weatherVars>>
    /\ UNCHANGED engineVars

ClockTick == \E n \in LaterInstants(now, TimesOfDay) : SetNow(n)

InitClock ==
    /\ now \in {[ldn |-> NewDate(FirstYear, 11, 1).ldn, minute |-> m] : m \in TimesOfDay}
    /\ zone \in Zones
    /\ cityIndex = DEFAULT_CITY_INDEX
    /\ showCityPicker = FALSE
    /\ view = Render(now, zone, cityIndex)
    /\ Mounted(EmptyStorage, CityAt(cityIndex))
    /\ EngineIdle

NextClock == ClockTick

\* The clock alone, the component mounted on December 1 of FirstYear: every
\* sampled instant up to the end of the last year, in every zone.
SpecClock == InitClock /\ [][NextClock]_vars

(***************************************************************************)
(* The component with its city picker.  The clock is looked at on          *)
(* January 1 of FirstYear and then at noon of the days the season labels   *)
(* name and of the days next to them; the frames in between are left out.  *)
(***************************************************************************)
\* The dates of the season labels, as <<month, date>> (0 = January).
LabelDates ==
    [d \in {"Dec 21", "Mar 20", "Jun 21", "Sep 22"} |->
        IF d = "Dec 21" THEN <<11, 21>>
        ELSE IF d = "Mar 20" THEN <<2, 20>>
        ELSE IF d = "Jun 21" THEN <<5, 21>>
        ELSE <<8, 22>>]

LabelDay(y, d) == NewDate(y, LabelDates[d][1], LabelDates[d][2]).ldn

SampledNoons ==
    {[ldn |-> LabelDay(FirstYear, d) + k, minute |-> Noon] :
        d \in DOMAIN LabelDates, k \in {-1, 0, 1}}

Tick == \E n \in {s \in SampledNoons : s.ldn > now.ldn} : SetNow(n)

\* onClick={() => setShowCityPicker(!showCityPicker)}
ToggleCityPicker ==
    /\ showCityPicker' = ~showCityPicker
    /\ view' = Render(now, zone, cityIndex)
    /\ UNCHANGED <<now, zone, cityIndex>>
    /\ UNCHANGED <<settingVars, weatherVars>>
    /\ UNCHANGED engineVars

\* onClick={() => { setCityIndex(i); setShowCityPicker(false); }}
SelectCity(i) ==
    /\ showCityPicker
    /\ cityIndex' = i
    /\ showCityPicker' = FALSE
    /\ view' = Render(now, zone, i)
    /\ WeatherEffectOnChange(CityAt(cityIndex), CityAt(i), showWeather, showWeather)
    /\ UNCHANGED <<now, zone>>
    /\ UNCHANGED settingVars
    /\ UNCHANGED engineVars

Init ==
    /\ now = [ldn |-> DayFromYear(FirstYear), minute |-> Noon]
    /\ zone = "UTC"
    /\ cityIndex = DEFAULT_CITY_INDEX
    /\ showCityPicker = FALSE
    /\ view = Render(now, zone, cityIndex)
    /\ Mounted(EmptyStorage, CityAt(cityIndex))
    /\ EngineIdle

Next ==
    \/ Tick
    \/ ToggleCityPicker
    \/ \E i \in 0..(Len(CITIES) - 1) : SelectCity(i)

Spec == Init /\ [][Next]_vars

(***************************************************************************)
(* The settings of the about page, a reload of the page, and the awaits of *)
(* fetchWeather().  The effect of a click runs with the render that        *)
(* follows the click; a stale call goes on until it returns.               *)
(***************************************************************************)
\* Background toggle: next = modes[(modes.indexOf(bgMode) + 1) % modes.length];
\* setBgMode(next); localStorage.setItem('sunClock_bgMode', next)
ToggleBackground ==
    /\ bgMode' = modes[((IndexOfMode(bgMode) - 1 + 1) % Len(modes)) + 1]
    /\ localStorage' = [localStorage EXCEPT !.sunClock_bgMode = bgMode']
    /\ UNCHANGED <<now, zone, cityIndex, showCityPicker, view, showWeather>>
    /\ UNCHANGED weatherVars
    /\ UNCHANGED engineVars

\* Weather toggle: next = !showWeather; setShowWeather(next);
\* localStorage.setItem('sunClock_showWeather', String(next))
ToggleWeather ==
    /\ showWeather' = ~showWeather
    /\ localStorage' = [localStorage EXCEPT !.sunClock_showWeather = BoolString(~showWeather)]
    /\ WeatherEffectOnChange(CityAt(cityIndex), CityAt(cityIndex), showWeather, ~showWeather)
    /\ UNCHANGED <<now, zone, cityIndex, showCityPicker, view, bgMode>>
    /\ UNCHANGED engineVars

\* The page is loaded again: every useState initializer runs anew, the calls
\* in flight are gone with the page, and the effects run for the mount.
Reload ==
    /\ cityIndex' = DEFAULT_CITY_INDEX
    /\ showCityPicker' = FALSE
    /\ view' = Render(now, zone, DEFAULT_CITY_INDEX)
    /\ bgMode' = InitialBgMode(localStorage)
    /\ showWeather' = InitialShowWeather(localStorage)
    /\ weatherIcon' = 0
    /\ weatherForecast' = 0
    /\ fetches' = IF InitialShowWeather(localStorage)
                  THEN <<NewFetch(CityAt(DEFAULT_CITY_INDEX))>> ELSE <<>>
    /\ UNCHANGED <<now, zone, localStorage>>
    /\ UNCHANGED engineVars

\* A call of fetchWeather() moves to another await, or returns.
FetchMoves(r, from, to) ==
    /\ r \in 1..Len(fetches)
    /\ fetches[r].stage = from
    /\ fetches' = [fetches EXCEPT ![r].stage = to]
    /\ UNCHANGED <<now, zone, cityIndex, showCityPicker, view>>
    /\ UNCHANGED settingVars
    /\ UNCHANGED engineVars

\* if (!ptRes.ok) return; if (!forecastUrl) return; or the fetch has thrown.
PointsFail(r) ==
    /\ FetchMoves(r, "points", "returned")
    /\ UNCHANGED <<weatherIcon, weatherForecast>>

\* const fcRes = await fetch(forecastUrl, ...)
PointsOk(r) ==
    /\ FetchMoves(r, "points", "forecast")
    /\ UNCHANGED <<weatherIcon, weatherForecast>>

\* if (!fcRes.ok) return; if (!periods?.length ...) return; or a throw.
ForecastFail(r) ==
    /\ FetchMoves(r, "forecast", "returned")
    /\ UNCHANGED <<weatherIcon, weatherForecast>>

\* ForecastOk without the tests of cancelled.
ForecastOkWhenCancelled(r) ==
    /\ FetchMoves(r, "forecast", "returned")
    /\ weatherIcon' = r
    /\ weatherForecast' = r

\* if (... || cancelled) return; ... if (!cancelled) { setWeatherIcon(icon);
\* ...; setWeatherForecast(report); }
ForecastOk(r) ==
    /\ FetchMoves(r, "forecast", "returned")
    /\ IF fetches[r].cancelled THEN UNCHANGED <<weatherIcon, weatherForecast>>
       ELSE weatherIcon' = r /\ weatherForecast' = r

FetchStep ==
    \E r \in 1..MaxFetches :
        PointsFail(r) \/ PointsOk(r) \/ ForecastFail(r) \/ ForecastOk(r)

\* The items a browser holds before the background was ever toggled: the old
\* sunClock_dynamicSky setting of an earlier version, and sunClock_showWeather.
StoredItems ==
    {[EmptyStorage EXCEPT !.sunClock_dynamicSky = d, !.sunClock_showWeather = w] :
        d \in {NoItem, "true", "false"}, w \in {NoItem, "true", "false"}}

InitSettings ==
    /\ now = [ldn |-> DayFromYear(FirstYear), minute |-> Noon]
    /\ zone = "UTC"
    /\ cityIndex = DEFAULT_CITY_INDEX
    /\ showCityPicker = FALSE
    /\ view = Render(now, zone, cityIndex)
    /\ \E storage \in StoredItems : Mounted(storage, CityAt(cityIndex))
    /\ EngineIdle

NextSettings ==
    \/ ToggleBackground
    \/ ToggleWeather
    \/ Reload
    \/ FetchStep

\* The about page: the two toggles, reloads, and the weather calls they start.
SpecSettings == InitSettings /\ [][NextSettings]_vars

\* New York and Sydney.
WeatherCities == {0, 4}

InitWeather ==
    /\ now = [ldn |-> DayFromYear(FirstYear), minute |-> Noon]
    /\ zone = "UTC"
    /\ cityIndex = DEFAULT_CITY_INDEX
    /\ showCityPicker = FALSE
    /\ view = Render(now, zone, cityIndex)
    /\ \E storage \in {s \in StoredItems : s.sunClock_dynamicSky = NoItem} :
          Mounted(storage, CityAt(cityIndex))
    /\ EngineIdle

NextWeather ==
    \/ ToggleCityPicker
    \/ \E i \in WeatherCities : SelectCity(i)
    \/ ToggleWeather
    \/ FetchStep

\* City changes, weather toggles and the weather calls, in any order.
SpecWeather == InitWeather /\ [][NextWeather]_vars

(***************************************************************************)
(* Engine functions called on their own.                                   *)
(***************************************************************************)
ComponentIdle ==
    /\ now = [ldn |-> DayFromYear(FirstYear), minute |-> Noon]
    /\ zone = "UTC"
    /\ cityIndex = DEFAULT_CITY_INDEX
    /\ showCityPicker = FALSE
    /\ view = Render(now, zone, cityIndex)
    /\ Mounted(EmptyStorage, CityAt(cityIndex))

\* The latitudes getSunTimes is applied to, in centidegrees: an even grid from
\* pole to pole, the equator, and the latitudes next to the polar circles.
Latitudes ==
    {-9000 + (18000 * k) \div LatGrid : k \in 0..LatGrid}
        \cup {0, 6640, 6649, 6650, 6651, 8950, -6640, -6649, -6650, -6651, -8950}

InitSun ==
    /\ ComponentIdle
    /\ input \in [dayOfYear : 0..MaxDayOfYear, latitude : Latitudes]
    /\ output = NoOutput
    /\ called = FALSE

CallGetSunTimes ==
    /\ ~called
    /\ output' = getSunTimes(input.dayOfYear, input.latitude)
    /\ called' = TRUE
    /\ UNCHANGED input
    /\ UNCHANGED componentVars

NextSun == CallGetSunTimes

SpecSun == InitSun /\ [][NextSun]_vars

InitYear ==
    /\ ComponentIdle
    /\ input \in {[date |-> NewDate(y, 0, 1)] : y \in (2120 - ProbeYears)..2119}
    /\ output = NoOutput
    /\ called = FALSE

CallGetDaysInYear ==
    /\ ~called
    /\ output' = [daysInYear |-> getDaysInYear(input.date)]
    /\ called' = TRUE
    /\ UNCHANGED input
    /\ UNCHANGED componentVars

NextYear == CallGetDaysInYear

SpecYear == InitYear /\ [][NextYear]_vars

\* The reference new moon as a Date of the zone UTC.
RefDate == DateOfTime(refNewMoon)

\* new Date(date.getTime() + periods * 29.53058770576 * 86400000): the time
\* value is cut to a whole number of the Date's units.
ShiftByPeriods(date, tz, periods) ==
    DateOfTime(getTime(date, tz) + (periods * SYNODIC_PERIOD) \div PhaseUnit)

\* getMoonPhase is applied to four instants of each of the MoonDays days
\* before and after the reference new moon, and to the instants a whole
\* number of periods, up to MaxPeriods, before and after each.
InitMoon ==
    /\ ComponentIdle
    /\ input \in [date : {[ldn |-> RefDate.ldn + d, minute |-> m] :
                            d \in (-MoonDays)..MoonDays,
                            m \in TimesOfDay \cup {RefDate.minute}},
                  periods : (-MaxPeriods)..MaxPeriods]
    /\ output = NoOutput
    /\ called = FALSE

CallGetMoonPhase ==
    /\ ~called
    /\ output' = [phase   |-> getMoonPhase(input.date, zone),
                  shifted |-> getMoonPhase(ShiftByPeriods(input.date, zone, input.periods), zone)]
    /\ called' = TRUE
    /\ UNCHANGED input
    /\ UNCHANGED componentVars

NextMoon == CallGetMoonPhase

SpecMoon == InitMoon /\ [][NextMoon]_vars

InitPath ==
    /\ ComponentIdle
    /\ input \in [phase : (-PhaseTurns * PhaseDen)..((PhaseTurns + 1) * PhaseDen - 1)]
    /\ output = NoOutput
    /\ called = FALSE

CallMoonPhasePath ==
    /\ ~called
    /\ output' = moonPhasePath(CENTER, CENTER, MOON_ICON_RADIUS, input.phase)
    /\ called' = TRUE
    /\ UNCHANGED input
    /\ UNCHANGED componentVars

NextPath == CallMoonPhasePath

SpecPath == InitPath /\ [][NextPath]_vars

\* The instants getMoonTimes is applied to: the TimesOfDay of the first
\* MoonTimesDays days of FirstYear.
MoonDates ==
    {[ldn |-> DayFromYear(FirstYear) + d, minute |-> m] :
        d \in 0..(MoonTimesDays - 1), m \in TimesOfDay}

\* The moon's declination at a Date of the zone UTC.
DecAt(date) ==
    MoonDec(SinceJ2000(getTime(date, "UTC")) \div MinutesPerDay,
            SinceJ2000(getTime(date, "UTC")) % MinutesPerDay)

\* The latitudes getMoonTimes is applied to at a declination: the poles, the
\* equator, cities and latitudes from 0.3 degrees below to 0.3 degrees
\* above the latitude at which the moon of that declination grazes the
\* horizon, in both hemispheres.
MoonLatitudesAt(dec) ==
    {-9000, -8000, -3387, 0, 4071, 6415, 9000}
        \cup {s * (9000 - Abs(dec) + k) : s \in {-1, 1}, k \in {-30, -10, 5, 10, 30}}

MoonLongitudes == {-18000, -7401, 0, 15121, 18000}

InitMoonTimes ==
    /\ ComponentIdle
    /\ input \in UNION {[date : {d}, latitude : MoonLatitudesAt(DecAt(d)),
                          longitude : MoonLongitudes] : d \in MoonDates}
    /\ output = NoOutput
    /\ called = FALSE

CallGetMoonTimes ==
    /\ ~called
    /\ output' = getMoonTimes(input.date, zone, input.latitude, input.longitude)
    /\ called' = TRUE
    /\ UNCHANGED input
    /\ UNCHANGED componentVars

NextMoonTimes == CallGetMoonTimes

SpecMoonTimes == InitMoonTimes /\ [][NextMoonTimes]_vars

\* azToDir is applied to every azimuth of [0, 360) in centidegrees.
InitAz ==
    /\ ComponentIdle
    /\ input \in [az : 0..35999]
    /\ output = NoOutput
    /\ called = FALSE

CallAzToDir ==
    /\ ~called
    /\ output' = [dir |-> azToDir(input.az)]
    /\ called' = TRUE
    /\ UNCHANGED input
    /\ UNCHANGED componentVars

NextAz == CallAzToDir

SpecAz == InitAz /\ [][NextAz]_vars

(***************************************************************************)
(* Claims about getSunTimes, under SpecSun.                                *)
(***************************************************************************)
SunCalled == called /\ "sunrise" \in DOMAIN output

InDay(h) == 0 <= h /\ h <= 24 * HourUnit

\* The day of the year of June 21, the northern summer solstice.
SummerSolsticeDay == 31 + 28 + 31 + 30 + 31 + 21

\* C1: for every day of the year and every latitude from -90 to 90 degrees,
\* the sunrise and the sunset getSunTimes returns are numbers (not NaN) and
\* lie between 0 and 24 hours.
C1_SunTimesDefinedInRange ==
    SunCalled =>
        /\ output.sunrise # NaN /\ output.sunset # NaN
        /\ InDay(output.sunrise) /\ InDay(output.sunset)

\* getSunTimes has returned for the pole on day 81, where the tangent of the
\* latitude is huge and the tangent of the declination is zero.
C1_Witness ==
    /\ SunCalled
    /\ input.latitude = 9000 /\ input.dayOfYear = 81
    /\ output = [sunrise |-> 6 * HourUnit, sunset |-> 18 * HourUnit]

\* C2: when cosOmega < -1 getSunTimes returns exactly sunrise 0, sunset 24, and
\* when cosOmega > 1 exactly sunrise 12, sunset 12; latitude 90 on the summer
\* solstice day gives 0/24 and latitude -90 on that day gives 12/12.
C2_PolarSentinels ==
    SunCalled =>
        /\ CosOmega(input.dayOfYear, input.latitude) < -Scale
             => output = [sunrise |-> 0, sunset |-> 24 * HourUnit]
        /\ CosOmega(input.dayOfYear, input.latitude) > Scale
             => output = [sunrise |-> 12 * HourUnit, sunset |-> 12 * HourUnit]
        /\ input.dayOfYear = SummerSolsticeDay /\ input.latitude = 9000
             => output = [sunrise |-> 0, sunset |-> 24 * HourUnit]
        /\ input.dayOfYear = SummerSolsticeDay /\ input.latitude = -9000
             => output = [sunrise |-> 12 * HourUnit, sunset |-> 12 * HourUnit]

\* getSunTimes has returned perpetual night for the South Pole on the
\* northern summer solstice.
C2_Witness ==
    /\ SunCalled
    /\ input.dayOfYear = SummerSolsticeDay /\ input.latitude = -9000
    /\ CosOmega(input.dayOfYear, input.latitude) > Scale
    /\ output = [sunrise |-> 12 * HourUnit, sunset |-> 12 * HourUnit]

\* C3: for every latitude strictly between -66.5 and 66.5 degrees and every
\* day 1..366, sunrise < sunset and both lie between 0 and 24 hours.
C3_NonPolarSunriseBeforeSunset ==
    (/\ SunCalled
     /\ -6650 < input.latitude /\ input.latitude < 6650
     /\ input.dayOfYear \in 1..366)
        => /\ output.sunrise < output.sunset
           /\ InDay(output.sunrise) /\ InDay(output.sunset)

\* getSunTimes has returned for latitude 66.49 on December 21, the shortest
\* day next to the polar circle.
C3_Witness ==
    /\ SunCalled
    /\ input.latitude = 6649 /\ input.dayOfYear = WINTER_SOLSTICE_DAY
    /\ output.sunrise > 11 * HourUnit /\ output.sunrise < output.sunset

\* C4: at latitude 0, on every day, sunrise is 6, sunset is 18 and the day is
\* 12 hours long.
C4_EquatorTwelveHours ==
    (SunCalled /\ input.latitude = 0)
        => /\ output.sunset - output.sunrise = 12 * HourUnit
           /\ output.sunrise = 6 * HourUnit
           /\ output.sunset = 18 * HourUnit

\* getSunTimes has returned for the equator on the summer solstice, the day
\* of the largest declination.
C4_Witness ==
    /\ SunCalled
    /\ input.latitude = 0 /\ input.dayOfYear = SummerSolsticeDay
    /\ Declination(input.dayOfYear) > 2300
    /\ output.sunset - output.sunrise = 12 * HourUnit

(***************************************************************************)
(* Claims about the calendar functions and the orbit angle.                *)
(***************************************************************************)
\* C5: at every instant getDayOfYear is the 1-based ordinal of the instant's
\* local calendar date within its year, at every time of the day, also when
\* the UTC offset at the instant differs from the offset at the start of the
\* year.
C5_DayOfYearIsCalendarOrdinal == view.dayOfYear = DayWithinYear(now)

YearCalled == called /\ "daysInYear" \in DOMAIN output

\* February 29 exists in year y under the Gregorian rule.
GregorianLeap(y) == (y % 4 = 0 /\ y % 100 # 0) \/ y % 400 = 0

\* C6: getDaysInYear returns 366 exactly for the years divisible by 4 and not
\* by 100, or divisible by 400, and 365 for every other year.
C6_DaysInYearGregorian ==
    YearCalled =>
        output.daysInYear = IF GregorianLeap(getFullYear(input.date)) THEN 366 ELSE 365

\* getDaysInYear has returned 365 for 2100, a year divisible by 4 and by 100
\* and not by 400.
C6_Witness ==
    /\ YearCalled
    /\ getFullYear(input.date) = 2100
    /\ output.daysInYear = 365

\* The instant of year y with the local ordinal and time of day of date.
SameOrdinalIn(y, date) ==
    [ldn |-> DayFromYear(y) + DayWithinYear(date) - 1, minute |-> date.minute]

ClockYears == FirstYear..(FirstYear + NumYears - 1)

\* C7: the orbit angle is 90 + 360 * (((d - 355 + N) mod N) / N) for the
\* dayOfYear d and daysInYear N of the instant; it is exactly 90 when d = 355,
\* in 365-day and in 366-day years; and an instant of another year with the
\* same d and the same N has the same angle.
C7_OrbitAngleClosedForm ==
    /\ view.baseOrbitAngle
         = 90 * AngleDen
             + ((360 * AngleDen) \div view.daysInYear)
                 * ((view.dayOfYear - 355 + view.daysInYear) % view.daysInYear)
    /\ view.dayOfYear = 355 => view.baseOrbitAngle = 90 * AngleDen
    /\ \A y \in ClockYears :
         (/\ getFullYear(SameOrdinalIn(y, now)) = y
          /\ getDayOfYear(SameOrdinalIn(y, now), zone) = view.dayOfYear
          /\ getDaysInYear(SameOrdinalIn(y, now)) = view.daysInYear)
            => getOrbitAngle(SameOrdinalIn(y, now), zone) = view.baseOrbitAngle

\* The render of day 355 of a 366-day year, the angle exactly 90.
C7_Witness ==
    /\ view.dayOfYear = 355
    /\ view.daysInYear = 366
    /\ view.baseOrbitAngle = 90 * AngleDen

\* C8, as claimed: the angle getOrbitAngle returns lies in [0, 360).
C8_OrbitAngleBelow360 ==
    0 <= view.baseOrbitAngle /\ view.baseOrbitAngle < 360 * AngleDen

\* C8, amended: the angle getOrbitAngle returns lies in [90, 450): 90 degrees
\* plus a fraction of a turn, not reduced modulo 360.
C8_OrbitAngleFrom90To450 ==
    90 * AngleDen <= view.baseOrbitAngle /\ view.baseOrbitAngle < 450 * AngleDen

\* A render between the autumn equinox and the winter solstice, where the
\* angle is 360 degrees or more.
C8_Witness ==
    /\ view.dayOfYear = 300
    /\ view.baseOrbitAngle >= 360 * AngleDen
    /\ view.baseOrbitAngle < 450 * AngleDen

\* One day's share of the orbit in a year of n days.
DayShare(n) == (360 * AngleDen) \div n

\* The advance of the orbit angle from one render to the next, modulo 360.
Advance(before, after) ==
    (after.baseOrbitAngle - before.baseOrbitAngle) % (360 * AngleDen)

\* C9: from one day to the next at the same time of day the orbit angle,
\* taken modulo 360, advances by a positive amount of about 360 / N degrees
\* (here: more than half and less than one and a half times a day's share),
\* also from December 31 to January 1.
C9_DailyStepAboutOneDay ==
    [][(now'.ldn = now.ldn + 1 /\ now'.minute = now.minute)
          => /\ 2 * Advance(view, view') > DayShare(view.daysInYear)
             /\ 2 * Advance(view, view') < 3 * DayShare(view.daysInYear)]_vars

(***************************************************************************)
(* Claims about the marker and the season labels, under Spec.              *)
(***************************************************************************)
Dist2(p, s) == (p.x - s.x) * (p.x - s.x) + (p.y - s.y) * (p.y - s.y)

\* The season label drawn nearest to the Earth marker.
NearestSeason(v) ==
    CHOOSE i \in DOMAIN v.seasons :
        \A j \in DOMAIN v.seasons :
            Dist2(v.earthPos, v.seasons[i]) <= Dist2(v.earthPos, v.seasons[j])

\* The season that begins on a label's date at a latitude.
LocalSeason(d, lat) ==
    IF d = "Dec 21" THEN (IF lat < 0 THEN "Summer" ELSE "Winter")
    ELSE IF d = "Mar 20" THEN (IF lat < 0 THEN "Autumn" ELSE "Spring")
    ELSE IF d = "Jun 21" THEN (IF lat < 0 THEN "Winter" ELSE "Summer")
    ELSE (IF lat < 0 THEN "Spring" ELSE "Autumn")

\* C10: on each of the dates Dec 21, Mar 20, Jun 21 and Sep 22, for every
\* city, the Earth marker sits at the label that carries that date, and that
\* label names the city's local season.
C10_MarkerAtLocalSeasonLabel ==
    \A d \in DOMAIN LabelDates :
        now.ldn = LabelDay(getFullYear(now), d)
            => /\ view.seasons[NearestSeason(view)].date = d
               /\ view.seasons[NearestSeason(view)].label = LocalSeason(d, view.city.latitude)

(***************************************************************************)
(* Claims about getMoonPhase, under SpecMoon.                              *)
(***************************************************************************)
MoonCalled == called /\ "phase" \in DOMAIN output

\* C11: at every instant, before or after the reference new moon,
\* getMoonPhase returns p with 0 <= p < 1.
C11_MoonPhaseInUnitInterval ==
    MoonCalled =>
        /\ 0 <= output.phase /\ output.phase < SYNODIC_PERIOD
        /\ 0 <= output.shifted /\ output.shifted < SYNODIC_PERIOD

\* getMoonPhase has returned for an instant before the reference new moon,
\* one day into the last quarter of the period before it.
C11_Witness ==
    /\ MoonCalled
    /\ getTime(input.date, zone) < refNewMoon
    /\ 4 * output.phase > 3 * SYNODIC_PERIOD

\* C12, as claimed: getMoonPhase is 0 at the reference instant, and the phase
\* a whole number of periods away from an instant equals the phase at it.
C12_MoonPhasePeriodicExactly ==
    MoonCalled =>
        /\ input.date = RefDate => output.phase = 0
        /\ output.shifted = output.phase

\* The distance between two phases around the cycle.
PhaseDistance(p, q) ==
    IF (p - q) % SYNODIC_PERIOD <= (q - p) % SYNODIC_PERIOD
    THEN (p - q) % SYNODIC_PERIOD
    ELSE (q - p) % SYNODIC_PERIOD

\* C12, amended: getMoonPhase is 0 at the reference instant, and the phase a
\* whole number of periods away from an instant is the phase at it to within
\* one unit of the Date's clock, counted around the cycle (from 0 it may wrap
\* to just under 1).
C12_MoonPhasePeriodicWithinClockUnit ==
    MoonCalled =>
        /\ input.date = RefDate => output.phase = 0
        /\ PhaseDistance(output.shifted, output.phase) < PhaseUnit

\* getMoonPhase has returned 0 for the reference instant and a phase just
\* under 1 for the instant two periods after it.
C12_Witness ==
    /\ MoonCalled
    /\ input.date = RefDate /\ input.periods = 2
    /\ output.phase = 0
    /\ output.shifted > SYNODIC_PERIOD - PhaseUnit

(***************************************************************************)
(* Claims about moonPhasePath, under SpecPath.                             *)
(***************************************************************************)
PathCalled == called /\ "text" \in DOMAIN output

\* The phase handed to moonPhasePath, reduced modulo 1 into [0, 1).
Reduced == input.phase % PhaseDen

InNewWindow(p) == 100 * p < PhaseDen \/ 100 * p > 99 * PhaseDen
InFullWindow(p) == 49 * PhaseDen < 100 * p /\ 100 * p < 51 * PhaseDen

\* C13: moonPhasePath returns the empty string exactly when the reduced phase
\* is below 0.01 or above 0.99, 'full' exactly when it is less than 0.01 away
\* from 0.5, and a path, neither empty nor 'full', for every other phase.
C13_PathWindows ==
    PathCalled =>
        /\ output.text = "" <=> InNewWindow(Reduced)
        /\ output.text = "full" <=> InFullWindow(Reduced)
        /\ output.text = "path" <=> ~InNewWindow(Reduced) /\ ~InFullWindow(Reduced)

\* moonPhasePath has returned a path for the phase 0.99, the bound of the
\* new-moon window, handed over as -0.01.
C13_Witness ==
    /\ PathCalled
    /\ input.phase = -(PhaseDen \div 100)
    /\ Reduced = 99 * (PhaseDen \div 100)
    /\ output.text = "path"

\* How SVG draws an elliptical arc between the top and the bottom of the disc
\* (SVG 1.1, 8.3.8): with sweep 1 the arc turns clockwise on the screen, from
\* the top to the bottom by the right and from the bottom to the top by the
\* left; with sweep 0 the other way round.
SideDownwards(sweep) == IF sweep = 1 THEN "right" ELSE "left"
SideUpwards(sweep) == IF sweep = 1 THEN "left" ELSE "right"

\* The path runs from the top of the disc down the limb to the bottom and up
\* the terminator back to the top.
TopBottomTop(path) ==
    /\ path.M = [x |-> CENTER, y |-> CENTER - MOON_ICON_RADIUS]
    /\ path.limb.x = CENTER /\ path.limb.y = CENTER + MOON_ICON_RADIUS
    /\ path.limb.rx = MOON_ICON_RADIUS * Scale /\ path.limb.ry = MOON_ICON_RADIUS
    /\ path.terminator.x = path.M.x /\ path.terminator.y = path.M.y
    /\ path.terminator.ry = MOON_ICON_RADIUS

\* The region between limb and terminator is less than half the disc when
\* both pass on the same side of the centre, more than half when the
\* terminator passes on the other side.
Crescent(path) ==
    /\ path.terminator.rx > 0
    /\ SideUpwards(path.terminator.sweep) = SideDownwards(path.limb.sweep)
Gibbous(path) ==
    /\ path.terminator.rx > 0
    /\ SideUpwards(path.terminator.sweep) # SideDownwards(path.limb.sweep)

\* C14: outside the new and full windows the path lights the right limb
\* (sweep 1) when phase < 0.5 and the left limb (sweep 0) when phase >= 0.5,
\* and the lit region is a crescent when cos(2 pi phase) > 0 (phase before
\* 0.25 or after 0.75) and gibbous when it is < 0, waxing and waning.
C14_LimbAndTerminator ==
    (PathCalled /\ output.text = "path") =>
        /\ TopBottomTop(output)
        /\ 2 * Reduced < PhaseDen
             => output.limb.sweep = 1 /\ SideDownwards(output.limb.sweep) = "right"
        /\ 2 * Reduced >= PhaseDen
             => output.limb.sweep = 0 /\ SideDownwards(output.limb.sweep) = "left"
        /\ (4 * Reduced < PhaseDen \/ 4 * Reduced > 3 * PhaseDen) => Crescent(output)
        /\ (4 * Reduced > PhaseDen /\ 4 * Reduced < 3 * PhaseDen) => Gibbous(output)

\* moonPhasePath has returned the path of a waning gibbous moon, phase 0.6:
\* the left limb lit, the terminator passing on the right.
C14_Witness ==
    /\ PathCalled /\ output.text = "path"
    /\ 10 * Reduced = 6 * PhaseDen
    /\ output.limb.sweep = 0
    /\ output.terminator.sweep = 0
    /\ Gibbous(output)

(***************************************************************************)
(* Claims about getMoonTimes and azToDir, under SpecMoonTimes and SpecAz.  *)
(***************************************************************************)
MoonTimesCalled == called /\ "moonrise" \in DOMAIN output

\* The days and the minutes since J2000 of a Date of the zone UTC.
DaysOf(date) == SinceJ2000(getTime(date, "UTC")) \div MinutesPerDay
MinutesOf(date) == SinceJ2000(getTime(date, "UTC")) % MinutesPerDay

\* cos(H) and cosAz for the input of the call.
InputCosH == CosH(input.latitude, DecAt(input.date))
InputCosAz == CosAz(input.latitude, DecAt(input.date))

\* C15: when cos(H) < -1 getMoonTimes returns moonrise 0 and moonset null,
\* when cos(H) > 1 it returns moonrise null and moonset null, and in neither
\* case has it evaluated Math.acos.
C15_MoonSentinels ==
    MoonTimesCalled =>
        /\ InputCosH < -Scale
             => output.moonrise = 0 /\ output.moonset = Null /\ output.acos = <<>>
        /\ InputCosH > Scale
             => output.moonrise = Null /\ output.moonset = Null /\ output.acos = <<>>

\* getMoonTimes has returned for a latitude 0.3 degrees beyond the one at
\* which the moon grazes the horizon, where the moon does not set.
C15_Witness ==
    /\ MoonTimesCalled
    /\ InputCosH < -Scale
    /\ Abs(input.latitude) = 9000 - Abs(DecAt(input.date)) + 30
    /\ output.moonrise = 0 /\ output.moonset = Null

CompassPoints == {"N", "NE", "E", "SE", "S", "SW", "W", "NW"}

\* C16, as claimed: moonriseDir is a compass point when moonrise is not null
\* and the empty string when it is null, and moonsetDir likewise for moonset.
C16_DirectionMatchesEvent ==
    MoonTimesCalled =>
        /\ output.moonrise # Null => output.moonriseDir \in CompassPoints
        /\ output.moonrise = Null => output.moonriseDir = ""
        /\ output.moonset # Null => output.moonsetDir \in CompassPoints
        /\ output.moonset = Null => output.moonsetDir = ""

\* C16, amended: moonsetDir is a compass point when moonset is not null and
\* the empty string when it is null; moonriseDir is the empty string when
\* moonrise is null and also in the result for a moon that never sets
\* (moonrise 0, moonset null), and a compass point in every other result.
C16_DirectionMatchesRiseSetBranch ==
    MoonTimesCalled =>
        /\ output.moonset # Null => output.moonsetDir \in CompassPoints
        /\ output.moonset = Null => output.moonsetDir = ""
        /\ output.moonrise = Null => output.moonriseDir = ""
        /\ (output.moonrise # Null /\ output.moonset # Null)
             => output.moonriseDir \in CompassPoints
        /\ (output.moonrise # Null /\ output.moonset = Null)
             => output.moonrise = 0 /\ output.moonriseDir = ""

\* getMoonTimes has returned the result of a moon that never sets: moonrise
\* 0 with no direction.
C16_Witness ==
    /\ MoonTimesCalled
    /\ output.moonrise = 0 /\ output.moonset = Null
    /\ output.moonriseDir = "" /\ output.moonsetDir = ""

AzCalled == called /\ "dir" \in DOMAIN output

\* The compass points in the order of their centres 0, 45, ..., 315 degrees.
CompassRose == <<"N", "NE", "E", "SE", "S", "SW", "W", "NW">>

\* C17: for every azimuth of [0, 360), azToDir returns the compass point
\* whose centre c satisfies c - 22.5 <= az < c + 22.5 (around the circle: N
\* covers [337.5, 360) and [0, 22.5)).
C17_AzToDirSectors ==
    AzCalled =>
        /\ output.dir = CompassRose[(((input.az + 2250) \div 4500) % 8) + 1]
        /\ \E c \in 0..7 :
             /\ output.dir = CompassRose[c + 1]
             /\ (input.az - (4500 * c - 2250)) % 36000 < 4500

\* azToDir has returned N for 337.5 degrees, the first azimuth of the sector
\* of N.
C17_Witness ==
    /\ AzCalled
    /\ input.az = 33750
    /\ output.dir = "N"

\* The result of getMoonTimes for the input's declination, right ascension
\* and location, evaluated at another minute of the input's day.
AtMinute(m) ==
    MoonTimesOf(DecAt(input.date),
                MoonRa(DaysOf(input.date), MinutesOf(input.date)),
                Gmst0(DaysOf([ldn |-> input.date.ldn, minute |-> m]),
                      MinutesOf([ldn |-> input.date.ldn, minute |-> m])),
                input.latitude, input.longitude)

\* C18: moonrise and moonset are hours of the local day: with the moon's
\* right ascension and declination and the location held fixed, getMoonTimes
\* at another instant of the same day returns the same moonrise and moonset.
C18_SameDaySameTimes ==
    MoonTimesCalled =>
        \A m \in TimesOfDay :
            /\ AtMinute(m).moonrise = output.moonrise
            /\ AtMinute(m).moonset = output.moonset

\* C19: in the rise/set branch (cos(H) in [-1, 1]) the azimuth argument
\* cosAz = sin(dec) / cos(lat) lies in [-1, 1] as well: every argument handed
\* to Math.acos lies in [-1, 1], and the directions come from an azimuth that
\* is a number.
C19_AcosArgumentsInDomain ==
    (MoonTimesCalled /\ -Scale <= InputCosH /\ InputCosH <= Scale) =>
        /\ -Scale <= InputCosAz /\ InputCosAz <= Scale
        /\ \A k \in DOMAIN output.acos :
             -Scale <= output.acos[k] /\ output.acos[k] <= Scale
        /\ MathAcosDeg(InputCosAz) # NaN

\* rise = transit - H * toDeg / 15 for the input of the call, before its
\* reduction; defined in the rise/set branch.
RawRise ==
    Transit(MoonRa(DaysOf(input.date), MinutesOf(input.date)),
            Gmst0(DaysOf(input.date), MinutesOf(input.date)), input.longitude)
        - AcosDeg(InputCosH)

\* C20: a moonrise or moonset that is not null is at least 0 and less than
\* 24 hours.
C20_MoonTimesWithinDay ==
    MoonTimesCalled =>
        /\ output.moonrise # Null
             => 0 <= output.moonrise /\ output.moonrise < 24 * HourUnit
        /\ output.moonset # Null
             => 0 <= output.moonset /\ output.moonset < 24 * HourUnit

\* getMoonTimes has returned a moonrise whose value before the reduction
\* was negative: 24 hours more.
C20_Witness ==
    /\ MoonTimesCalled
    /\ output.moonrise # Null /\ output.moonset # Null
    /\ RawRise < 0
    /\ output.moonrise = RawRise + 24 * HourUnit

\* formatTime on its own: null and every hour from 0 to 24 in steps of
\* 1/HourUnit hour.
InitFormat ==
    /\ ComponentIdle
    /\ input \in [h : (0..(24 * HourUnit)) \cup {Null}]
    /\ output = NoOutput
    /\ called = FALSE

CallFormatTime ==
    /\ ~called
    /\ output' = [formatted |-> formatTime(input.h)]
    /\ called' = TRUE
    /\ UNCHANGED input
    /\ UNCHANGED componentVars

NextFormat == CallFormatTime

SpecFormat == InitFormat /\ [][NextFormat]_vars

\* The wedges of the dial on their own, for the sun times of every day of
\* the year at every latitude of the grid.
InitDial ==
    /\ ComponentIdle
    /\ input \in [dialDay : 0..MaxDayOfYear, latitude : Latitudes]
    /\ output = NoOutput
    /\ called = FALSE

CallDescribeArc ==
    /\ ~called
    /\ output' = DayNight(CENTER, CENTER, getSunTimes(input.dialDay, input.latitude))
    /\ called' = TRUE
    /\ UNCHANGED input
    /\ UNCHANGED componentVars

NextDial == CallDescribeArc

SpecDial == InitDial /\ [][NextDial]_vars

\* getSkyColor on its own, as the render calls it in the 'daylight'
\* background mode: at one hour of the day and at the sampled hour before it
\* (1/HourUnit hour earlier), for the sun times of a day and latitude.
SkyDays == {d \in 0..MaxDayOfYear : d % 3 = 0}

SkyLatitudes == {0, 4071, -3387, 6000, 6450, 6640, 6900, -7200}

\* The time points at which getSkyColor changes branch.
Breakpoints(sunrise, sunset) ==
    {preDawn(sunrise), dawn(sunrise), sunrise, dayStart(sunrise), dayFull(sunrise),
     dayEndFull(sunset), dayEnd(sunset), sunset, dusk(sunset), postDusk(sunset)}

\* The hours sampled for given sun times: every half hour, every time point
\* and the hours next to it.
SkyHours(solar) ==
    ({(k * HourUnit) \div 2 : k \in 1..47}
        \cup {b + k : b \in Breakpoints(solar.sunrise, solar.sunset), k \in {0, 1}})
    \cap (1..(24 * HourUnit - 1))

InitSky ==
    /\ ComponentIdle
    /\ \E d \in SkyDays, lat \in SkyLatitudes :
          \E h \in SkyHours(getSunTimes(d, lat)) :
              input = [skyDay |-> d, latitude |-> lat, hour |-> h]
    /\ output = NoOutput
    /\ called = FALSE

SkyFrames(hour, solar) ==
    [solar  |-> solar,
     before |-> getSkyColor(hour - 1, solar.sunrise, solar.sunset, DefaultDaylight),
     sky    |-> getSkyColor(hour, solar.sunrise, solar.sunset, DefaultDaylight)]

CallGetSkyColor ==
    /\ ~called
    /\ output' = SkyFrames(input.hour, getSunTimes(input.skyDay, input.latitude))
    /\ called' = TRUE
    /\ UNCHANGED input
    /\ UNCHANGED componentVars

NextSky == CallGetSkyColor

SpecSky == InitSky /\ [][NextSky]_vars

(***************************************************************************)
(* More claims about getSunTimes, under SpecSun.                           *)
(***************************************************************************)
\* C26: every result of getSunTimes is symmetric about noon: sunrise + sunset
\* = 24, in the normal branch and in both sentinel branches.
C26_SymmetricAboutNoon ==
    SunCalled => output.sunrise + output.sunset = 24 * HourUnit

\* getSunTimes has returned a normal result with a sunrise before 6:00.
C26_Witness ==
    /\ SunCalled
    /\ -Scale <= CosOmega(input.dayOfYear, input.latitude)
    /\ CosOmega(input.dayOfYear, input.latitude) <= Scale
    /\ 0 < output.sunrise /\ output.sunrise < 6 * HourUnit
    /\ output.sunset = 24 * HourUnit - output.sunrise

(***************************************************************************)
(* Claims about formatTime, under SpecFormat.                              *)
(***************************************************************************)
FormatCalled == called /\ "formatted" \in DOMAIN output

\* The hour of the 12-hour clock for a whole hour: 0 is shown as 12.
ShownHour(hrs) == IF hrs % 12 = 0 THEN 12 ELSE hrs % 12

\* C30: formatTime maps null to '--:--'; for every h in [0, 24] the suffix is
\* 'am' when (h mod 24) < 12 and 'pm' otherwise, the hour shown is
\* floor(h) mod 12 with 0 shown as 12, and the minutes are floor(frac(h) * 60),
\* in 00..59; this covers the sentinels 0, 12 and 24.
C30_FormatTime ==
    FormatCalled =>
        IF input.h = Null THEN output.formatted.text = "--:--"
        ELSE /\ output.formatted.ampm =
                    (IF input.h % (24 * HourUnit) < 12 * HourUnit THEN "am" ELSE "pm")
             /\ output.formatted.h12 = ShownHour(input.h \div HourUnit)
             /\ output.formatted.mins = ((input.h % HourUnit) * 60) \div HourUnit
             /\ output.formatted.mins \in 0..59

(***************************************************************************)
(* More claims about getMoonTimes, under SpecMoonTimes.                    *)
(***************************************************************************)
\* The compass point at the same angle on the other side of the meridian.
Mirror ==
    [d \in CompassPoints |->
        IF d = "NE" THEN "NW" ELSE IF d = "NW" THEN "NE"
        ELSE IF d = "E" THEN "W" ELSE IF d = "W" THEN "E"
        ELSE IF d = "SE" THEN "SW" ELSE IF d = "SW" THEN "SE"
        ELSE d]

\* C29: when getMoonTimes returns both a moonrise and a moonset, the azimuth
\* of moonset is 360 - azRise and moonsetDir is the mirror image of
\* moonriseDir about the meridian (N-N, NE-NW, E-W, SE-SW, S-S), for every
\* azRise in [0, 180], the sector boundaries included.
C29_SetDirMirrorsRiseDir ==
    (MoonTimesCalled /\ output.moonrise # Null /\ output.moonset # Null) =>
        /\ output.moonriseDir \in CompassPoints
        /\ output.moonsetDir = Mirror[output.moonriseDir]

(***************************************************************************)
(* Claims about the day and night wedges, under SpecDial.                  *)
(***************************************************************************)
DialCalled == called /\ "dayPath" \in DOMAIN output

\* C21: the day and night wedges are complementary: the sweep of the day
\* wedge plus the sweep of the night wedge is 360 degrees for every result of
\* getSunTimes, both polar sentinels included; hourToAngle places 6:00 at 0
\* degrees and advances 15 degrees per hour.
C21_WedgesComplementary ==
    DialCalled =>
        /\ output.sunriseAngle = ((output.solar.sunrise - 6 * HourUnit) * 1500) \div HourUnit
        /\ output.sunsetAngle = ((output.solar.sunset - 6 * HourUnit) * 1500) \div HourUnit
        /\ hourToAngle(6 * HourUnit) = 0
        /\ output.dayPath.sweep + output.nightPath.sweep = 36000

(***************************************************************************)
(* Claims about getSkyColor, under SpecSky.                                *)
(***************************************************************************)
SkyCalled == called /\ "sky" \in DOMAIN output

\* Two results are as close as one sampled hour of the steepest segment
\* allows: half a channel unit and two thousandths of opacity.
Close(s1, s2) ==
    /\ \A i \in 1..3 : Abs(s1.rgb[i] - s2.rgb[i]) <= ColorUnit \div 2
    /\ Abs(s1.starOpacity - s2.starOpacity) <= 2

\* C23: getSkyColor is continuous in hour for every sunrise <= sunset that
\* getSunTimes returns, short days and both sentinels included: wherever the
\* code changes branch, the colour and the star opacity at the end of the
\* earlier segment equal those at the start of the next.
C23_SkyContinuous ==
    (SkyCalled /\ output.before.branch # output.sky.branch) =>
        Close(output.before, output.sky)

\* C24: whenever hour < sunrise - 1.5 or hour >= sunset + 1.5, getSkyColor
\* returns bg 'rgb(0,0,0)' and starOpacity 1.
C24_FullNightIsBlack ==
    (SkyCalled /\ (\/ input.hour < preDawn(output.solar.sunrise)
                   \/ input.hour >= postDusk(output.solar.sunset))) =>
        /\ output.sky.bg = <<0, 0, 0>>
        /\ output.sky.starOpacity = ColorUnit

InUnitRange(s) ==
    /\ 0 <= s.starOpacity /\ s.starOpacity <= ColorUnit
    /\ \A i \in 1..3 : s.bg[i] \in 0..255
    /\ s.t.den > 0 /\ 0 <= s.t.num /\ s.t.num < s.t.den

\* C25: getSkyColor returns a starOpacity in [0, 1] and bg channels that are
\* integers in [0, 255]; in every interpolating branch t lies in [0, 1).
C25_SkyInRange ==
    SkyCalled => InUnitRange(output.sky) /\ InUnitRange(output.before)

\* getSkyColor has interpolated on a day too short for the full-white
\* segment, after the time point dayEndFull.
C25_Witness ==
    /\ SkyCalled
    /\ output.solar.sunset - output.solar.sunrise < (11 * HourUnit) \div 2
    /\ output.solar.sunrise < output.solar.sunset
    /\ output.sky.branch = "late day"
    /\ output.sky.t.num > 0
    /\ output.sky.starOpacity = 0

(***************************************************************************)
(* Claims about the city picker, under Spec.                               *)
(***************************************************************************)
\* The render has used the latitude and longitude of city c in every call.
RenderedFor(c) ==
    /\ view.city = c
    /\ view.solar = getSunTimes(view.dayOfYear, c.latitude)
    /\ view.moonTimes = getMoonTimes(now, zone, c.latitude, c.longitude)
    /\ view.orbitAngle = IF c.latitude < 0 THEN view.baseOrbitAngle + 180 * AngleDen
                         ELSE view.baseOrbitAngle

CityIndexValid ==
    /\ Len(CITIES) = 50
    /\ cityIndex \in 0..(Len(CITIES) - 1)
    /\ RenderedFor(CITIES[cityIndex + 1])

\* A change of city is a selection made in the open picker, and closes it.
SelectionClosesPicker ==
    cityIndex' # cityIndex => showCityPicker /\ ~showCityPicker'

\* C22: after any sequence of picker openings, closings and selections,
\* cityIndex is a valid index into the 50 CITIES; a selection sets it and
\* closes the picker; and every engine call of the render that follows
\* (getSunTimes, getMoonTimes, the hemisphere flip) uses the latitude and
\* longitude of CITIES[cityIndex] only.
C22_CityIndexValidAndUsed == []CityIndexValid /\ [][SelectionClosesPicker]_vars

\* Sydney has been selected: the picker is closed and the orbit is flipped.
C22_Witness ==
    /\ cityIndex = 4
    /\ ~showCityPicker
    /\ view.city.name = "Sydney"
    /\ view.city.latitude < 0
    /\ view.orbitAngle = view.baseOrbitAngle + 180 * AngleDen
    /\ view.solar = getSunTimes(view.dayOfYear, view.city.latitude)

(***************************************************************************)
(* Claims about the persisted background mode, under SpecSettings.         *)
(***************************************************************************)
\* C27: bgMode round-trips through persistence: after any sequence of clicks
\* on the Background toggle, each of which writes sunClock_bgMode, a reload
\* initialises bgMode to the last mode written, whatever the value of the
\* old key sunClock_dynamicSky.  (No mode has been written before the first
\* click, and a click leaves bgMode equal to the mode it writes.)
C27_BgModeRoundTrips ==
    localStorage.sunClock_bgMode # NoItem => bgMode = localStorage.sunClock_bgMode

(***************************************************************************)
(* Claims about the weather effect, under SpecWeather.                     *)
(***************************************************************************)
\* weatherIcon and weatherForecast are both null or both from the same
\* forecast, which a call made for the current city and not cancelled has
\* received; with showWeather false they are null.
WeatherConsistent ==
    /\ weatherIcon = weatherForecast
    /\ weatherIcon # 0 =>
          /\ weatherIcon \in 1..Len(fetches)
          /\ ~fetches[weatherIcon].cancelled
          /\ fetches[weatherIcon].stage = "returned"
          /\ fetches[weatherIcon].latitude = CityAt(cityIndex).latitude
          /\ fetches[weatherIcon].longitude = CityAt(cityIndex).longitude
          /\ showWeather
    /\ ~showWeather => weatherIcon = 0 /\ weatherForecast = 0

\* A call whose effect has been cleaned up sets neither of them.
NoStaleResponse ==
    \A r \in 1..Len(fetches) :
        fetches[r].cancelled => weatherIcon' # r /\ weatherForecast' # r

====
